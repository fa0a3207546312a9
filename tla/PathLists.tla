----------------------------- MODULE PathLists -----------------------------
(***************************************************************************)
(* The texts in which paths travel and are kept: the list of files (a line *)
(* "time; path" for each, FileInfo and FileScanner), the file              *)
(* .deleted_files_list (a line for each path), the list of deleted files   *)
(* as a message (paths that end in NUL), and the path of a file relative   *)
(* to the root of its directory.  Each is written at one place and read    *)
(* back at another, by loops of which every round is a step.               *)
(*                                                                         *)
(* A text is a sequence of characters.  The buffer of 4096 characters into *)
(* which a path is read is longer than any path the system lets one open,  *)
(* and is left out.                                                        *)
(***************************************************************************)
EXTENDS Naturals, SequencesExt

CONSTANTS
    Name,          \* the paths of files, as sequences of characters
    Time,          \* the times of files, as sequences of digits
    Root,          \* the root directory, as a sequence of components
    Component,     \* the names of files and directories below it
    TrailingSlash, \* is the root given with a / at its end?
    MaxLength      \* bound: the entries of a list, the components of a path

NUL == "NUL"
Digit == {"1", "2", "5"}
Space == {" ", "\n"}

ASSUME ListAssumption ==
    /\ \A name \in Name : /\ name \in Seq(STRING) /\ name # <<>>
                          /\ ~Contains(name, NUL)
    /\ \A time \in Time : time \in Seq(Digit) /\ time # <<>>
    /\ Root \in Seq(STRING)
    /\ Component \subseteq STRING
    /\ TrailingSlash \in BOOLEAN
    /\ MaxLength \in Nat

VARIABLES
    form,     \* what is being passed on, or "none"
    given,    \* it, where it is written: the entries of a list, or a path
    phase,    \* "write", "read" or "done"
    written,  \* how many entries the text has
    text,     \* the text, when it is read what is left of it
    taken     \* what has been read

listVars == <<form, given, phase, written, text, taken>>

From(s, i) == SubSeq(s, i, Len(s))

\* The first of some places in a sequence, or the one after its end.
First(s, places) == Min(places \cup {Len(s) + 1})

UpTo(s, char) == SubSeq(s, 1, First(s, {i \in DOMAIN s : s[i] = char}) - 1)

SkipSpace(s) == From(s, First(s, {i \in DOMAIN s : s[i] \notin Space}))

Number(s) == SubSeq(s, 1, First(s, {i \in DOMAIN s : s[i] \notin Digit}) - 1)

-----------------------------------------------------------------------------
asFileList(file) == file.timestamp \o <<";", " ">> \o file.path \o <<"\n">>

\* Mutation: all space before the path is skipped.
ReadFileInfoSkipping(s) ==
    LET number == SkipSpace(s)
        sign == SkipSpace(From(number, Len(Number(number)) + 1))
        line == SkipSpace(From(sign, 2))
    IN  [good |-> number # sign /\ line # <<>>,
         file |-> [timestamp |-> Number(number), path |-> UpTo(UpTo(line, "\n"), NUL)],
         rest |-> From(line, Len(UpTo(line, "\n")) + 2)]

\* operator>>: a number, a character that is no space, a character, and the
\* rest of the line.
ReadFileInfo(s) ==
    LET number == SkipSpace(s)
        sign == SkipSpace(From(number, Len(Number(number)) + 1))
        line == From(sign, 3)
    IN  [good |-> number # sign /\ line # <<>>,
         file |-> [timestamp |-> Number(number), path |-> UpTo(UpTo(line, "\n"), NUL)],
         rest |-> From(line, Len(UpTo(line, "\n")) + 2)]

\* Mutation: words are read instead of lines.
ReadWord(s) ==
    LET words == SkipSpace(s)
        end == First(words, {i \in DOMAIN words : words[i] \in Space})
    IN  [line |-> SubSeq(words, 1, end - 1), rest |-> From(words, end + 1)]

ReadLine(s) == [line |-> UpTo(s, "\n"), rest |-> From(s, Len(UpTo(s, "\n")) + 2)]

\* Mutation: the list in the message ends its paths as the list file does.
DeletedLine(path) == Append(path, "\n")

\* ServerDeletedList
DeletedText(path) == Append(path, NUL)

\* Mutation: components are compared wherever they are.
relativeToAny(from, to) == SelectSeq(to, LAMBDA x : ~Contains(from, x))

relativeTo(from, to) ==
    LET n == First(to, {i \in DOMAIN to : i > Len(from) \/ to[i] # from[i]})
    IN  [i \in 1 .. Len(from) + 1 - n |-> ".."] \o From(to, n)

\* How boost iterates over the path of the root directory: a / at its end
\* stands for a component of its own.
RootPath == IF TrailingSlash THEN Append(Root, ".") ELSE Root
-----------------------------------------------------------------------------
Distinct(paths) == \A i, j \in DOMAIN paths : paths[i] = paths[j] => i = j

Begin(kind, lists) ==
    /\ form = "none"
    /\ form' = kind
    /\ given' \in lists
    /\ phase' = "write"
    /\ UNCHANGED <<written, text, taken>>

SendFileList ==
    Begin("fileList", {files \in SeqOf([path : Name, timestamp : Time], MaxLength) :
                          Distinct([i \in DOMAIN files |-> files[i].path])})

SaveList == Begin("listFile", {paths \in SeqOf(Name, MaxLength) : Distinct(paths)})

SendDeletedList ==
    Begin("deletedList", {paths \in SeqOf(Name, MaxLength) : Distinct(paths)})

IsList == form \in {"fileList", "listFile", "deletedList"}

\* The characters of an entry.
Entry(x) ==
    CASE form = "fileList" -> asFileList(x)
      [] form = "listFile" -> Append(x, "\n")
      [] form = "deletedList" -> DeletedText(x)

\* A round of the loop over the entries.
Write ==
    /\ IsList
    /\ phase = "write"
    /\ written < Len(given)
    /\ written' = written + 1
    /\ text' = text \o Entry(given[written'])
    /\ UNCHANGED <<form, given, phase, taken>>

\* The text is passed on.  to_bytes adds a NUL twice to that of the list of
\* files: to the text that is sent, and before it is read.
Pass ==
    /\ IsList
    /\ phase = "write"
    /\ written = Len(given)
    /\ phase' = "read"
    /\ text' = IF form = "fileList" THEN text \o <<NUL, NUL>> ELSE text
    /\ UNCHANGED <<form, given, written, taken>>

\* The rounds of the loops that read, and their ends.
Done ==
    /\ phase' = "done"
    /\ UNCHANGED <<form, given, written, text, taken>>

TakeFileList ==
    /\ form = "fileList"
    /\ phase = "read"
    /\ LET read == ReadFileInfo(text)
       IN  IF read.good
           THEN /\ taken' = Append(taken, read.file)
                /\ text' = read.rest
                /\ UNCHANGED <<form, given, phase, written>>
           ELSE Done

RereadFile ==
    /\ form = "listFile"
    /\ phase = "read"
    /\ LET read == ReadLine(text)
       IN  IF text # <<>>
           THEN /\ taken' = IF read.line = <<>> THEN taken ELSE Append(taken, read.line)
                /\ text' = read.rest
                /\ UNCHANGED <<form, given, phase, written>>
           ELSE Done

TakeDeletedList ==
    /\ form = "deletedList"
    /\ phase = "read"
    /\ LET path == UpTo(text, NUL)
       IN  IF path # text
           THEN /\ taken' = Append(taken, path)
                /\ text' = From(text, Len(path) + 2)
                /\ UNCHANGED <<form, given, phase, written>>
           ELSE Done

\* A file below the root is found and its path made relative,
ScanDirectory ==
    /\ form = "none"
    /\ form' = "path"
    /\ given' \in {Root \o below : below \in SeqOf(Component, MaxLength) \ {<<>>}}
    /\ phase' = "read"
    /\ text' = relativeTo(RootPath, given')
    /\ UNCHANGED <<written, taken>>

\* and joined with the root where the file is needed.
JoinPaths ==
    /\ form = "path"
    /\ phase = "read"
    /\ phase' = "done"
    /\ taken' = Root \o text
    /\ UNCHANGED <<form, given, written, text>>

Init ==
    /\ form = "none" /\ given = <<>> /\ phase = "write"
    /\ written = 0 /\ text = <<>> /\ taken = <<>>

Next ==
    \/ SendFileList \/ SaveList \/ SendDeletedList
    \/ Write \/ Pass
    \/ TakeFileList \/ RereadFile \/ TakeDeletedList
    \/ ScanDirectory \/ JoinPaths

Spec == Init /\ [][Next]_listVars
-----------------------------------------------------------------------------
Read(kind) == form = kind /\ phase = "done"

Plain(path) == ~Contains(path, "\n")

\* A list of files is read as it was written (client/tests.cpp "FileScanner
\* roundtrip"), whatever characters other than a line feed its names have; and
\* where a name has one, at least the files before it arrive.
FilesArrive ==
    Read("fileList") =>
        LET plain == First(given, {i \in DOMAIN given : ~Plain(given[i].path)}) - 1
        IN  /\ SubSeq(taken, 1, plain) = SubSeq(given, 1, plain)
            /\ plain = Len(given) => taken = given

\* A server that starts again reads every path without a line feed back from
\* .deleted_files_list, and no other ones if no path has a line feed.
ListIsReread ==
    Read("listFile") =>
        /\ \A i \in DOMAIN given : Plain(given[i]) => Contains(taken, given[i])
        /\ (\A i \in DOMAIN given : Plain(given[i])) => taken = given

\* The list of deleted files reaches the client as it is (ServerDeletedList),
\* even with line feeds.
DeletedListArrives == Read("deletedList") => taken = given

\* What a path leads to: reference definition.
Resolved(path) ==
    FoldLeft(LAMBDA dir, x :
                 IF x = "." THEN dir
                 ELSE IF x = ".." /\ dir # <<>> /\ Last(dir) # ".." THEN Front(dir)
                 ELSE Append(dir, x),
             <<>>, path)

\* A file's relative path, joined with the root, leads to the file again: what
\* a scan finds can be read, sent and removed (FileScanner, ClientLogic).
PathLeadsBack == Read("path") => Resolved(taken) = Resolved(given)
=============================================================================
