----------------------------- MODULE FileSource -----------------------------
(***************************************************************************)
(* FileSource: init() lists the files of a directory, drops those without  *)
(* a vCard and opens the first one again; getItem() reads one after the    *)
(* other.  Files may disappear at any time.  A file is the sequence of its *)
(* vCards; Bad is one that cannot be parsed.                               *)
(***************************************************************************)
EXTENDS Integers, Sequences, FiniteSets

CONSTANTS Directories   \* the directories to try, each a sequence of files

Good == "good"
Bad == "bad"
ASSUME FileAssumption == \A d \in Directories : d \in Seq(Seq({Good, Bad}))

VARIABLES
  disk,         \* the directory: its files, in the order readdir() gives them
  there,        \* those of them that can be opened
  counting,     \* the file init() looks into next; 0 when it has not begun
  filenames,    \* the files with vCards that it found, indices into disk
  currentFile,  \* index into filenames, Len(filenames) + 1 is end(), 0 before
  infile,       \* the vCards of the open file that were not read
  lost,         \* init() could not open the first file again
  given         \* what the calls of getItem() have returned

initVars == <<counting, filenames, lost>>
fileVars == <<disk, there, initVars, currentFile, infile, given>>

FileInit ==
  /\ disk \in Directories
  /\ there \in SUBSET (1..Len(disk))
  /\ counting = 0 /\ filenames = <<>> /\ currentFile = 0 /\ infile = <<>> /\ lost = FALSE
  /\ given = [ret |-> "none", last |-> 0, broken |-> FALSE]

Opened == currentFile # 0

\* How many vCards the first i of the files found have, for every i.
CardsIn(files) ==
  LET sum[i \in 0..Len(files)] == IF i = 0 THEN 0 ELSE sum[i - 1] + Len(disk[files[i]])
  IN  sum

\* getTotalCount(), what init() counted.
TotalNumberOfVCards == CardsIn(filenames)[Len(filenames)]

\* init() lists the directory.
ListFiles ==
  /\ ~Opened /\ counting = 0
  /\ counting' = 1
  /\ UNCHANGED <<disk, there, filenames, currentFile, infile, lost, given>>

HasVCards(f) == f \in there /\ disk[f] # <<>>

\* It opens one file after the other and drops those without a vCard.
CountVCards ==
  /\ counting \in 1..Len(disk)
  /\ filenames' = IF HasVCards(counting) THEN Append(filenames, counting) ELSE filenames
  /\ counting' = counting + 1
  /\ UNCHANGED <<disk, there, currentFile, infile, lost, given>>

\* It opens the first file again, without a look whether it could.  With no
\* file left it fails, and may be called again.
OpenFirst ==
  /\ counting = Len(disk) + 1
  /\ counting' = 0
  /\ IF filenames = <<>>
     THEN UNCHANGED <<currentFile, infile, lost>>
     ELSE /\ currentFile' = 1
          /\ lost' = (filenames[1] \notin there)
          /\ infile' = IF lost' THEN <<>> ELSE disk[filenames[1]]
  /\ UNCHANGED <<disk, there, filenames, given>>

-----------------------------------------------------------------------------
FileAnswer(ret, card) ==
  given' = [ret |-> ret, last |-> IF ret = "ok" THEN card ELSE given.last, broken |-> given.broken \/ ret = "error"]

\* The first vCard of what is left of file f; it is the one with this number.
ReadCard(f, cards) ==
  /\ infile' = Tail(cards)
  /\ FileAnswer(IF Head(cards) = Good THEN "ok" ELSE "error", CardsIn(filenames)[f] - Len(cards) + 1)

ReadOn ==
  /\ Opened /\ currentFile <= Len(filenames) /\ infile # <<>>
  /\ ReadCard(currentFile, infile)
  /\ UNCHANGED <<disk, there, initVars, currentFile>>

\* Mutant: a file that cannot be opened is passed over.
PassOver ==
  /\ Opened /\ currentFile <= Len(filenames) /\ infile = <<>>
  /\ IF currentFile = Len(filenames)
     THEN currentFile' = currentFile + 1 /\ FileAnswer("end", 0) /\ UNCHANGED infile
     ELSE IF filenames[currentFile + 1] \in there
     THEN currentFile' = currentFile + 1 /\ ReadCard(currentFile + 1, disk[filenames[currentFile + 1]])
     ELSE currentFile' = currentFile + 1 /\ UNCHANGED <<infile, given>>
  /\ UNCHANGED <<disk, there, initVars>>

\* The end of a file: the next one is opened, and getItem() calls itself.  If
\* it cannot be opened, the one after it is lost, too: it becomes the current
\* file without being opened.
NextFile ==
  /\ Opened /\ currentFile <= Len(filenames) /\ infile = <<>>
  /\ IF currentFile = Len(filenames)
     THEN currentFile' = currentFile + 1 /\ FileAnswer("end", 0) /\ UNCHANGED infile
     ELSE IF filenames[currentFile + 1] \in there
     THEN currentFile' = currentFile + 1 /\ ReadCard(currentFile + 1, disk[filenames[currentFile + 1]])
     ELSE currentFile' = currentFile + 2 /\ FileAnswer("error", 0) /\ UNCHANGED infile
  /\ UNCHANGED <<disk, there, initVars>>

AtTheEnd ==
  /\ Opened /\ currentFile > Len(filenames)
  /\ FileAnswer("end", 0)
  /\ UNCHANGED <<disk, there, initVars, currentFile, infile>>

\* Another program deletes a file, or makes one readable.
FileChanges ==
  /\ \E f \in 1..Len(disk) :
       there' = IF f \in there THEN there \ {f} ELSE there \cup {f}
  /\ UNCHANGED <<disk, initVars, currentFile, infile, given>>

FileGetItem == ReadOn \/ NextFile \/ AtTheEnd
FileNext == ListFiles \/ CountVCards \/ OpenFirst \/ FileGetItem \/ FileChanges

FileSpec == FileInit /\ [][FileNext]_fileVars

-----------------------------------------------------------------------------
(* Properties.                                                             *)

\* The list of files and the place in it are well formed.
FileTypeOK ==
  /\ disk \in Directories /\ there \subseteq 1..Len(disk)
  /\ counting \in 0..Len(disk) + 1
  /\ \A n \in 1..Len(filenames) : filenames[n] \in 1..Len(disk) /\ disk[filenames[n]] # <<>>
  /\ currentFile \in 0..Len(filenames) + 1
  /\ infile \in Seq({Good, Bad}) /\ lost \in BOOLEAN
  /\ given.last \in 0..TotalNumberOfVCards

\* A lost first file counts as an error, which the caller was not told of.
FilePromise == INSTANCE ItemSource WITH
  count <- IF Opened THEN TotalNumberOfVCards ELSE 0, last <- given.last, result <- given.ret,
  broken <- given.broken \/ lost, cancelled <- FALSE

FirstFileLost == ~lost /\ lost' /\ UNCHANGED given

\* FileSource keeps the promise of a Source, but for init() when the first file
\* disappears under it: any other file that disappears and a vCard that cannot
\* be parsed is an error before the end, never a silent gap (File.cpp:159, :178).
FileKeepsPromise == FilePromise!Init /\ [][FilePromise!Next \/ FirstFileLost]_(FilePromise!sourceVars)

================================================================================
