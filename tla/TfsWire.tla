-------------------------------- MODULE TfsWire --------------------------------
(***************************************************************************)
(* What becomes of a command on its way to the server: the client program  *)
(* (bin/tecnicofs-client.c) reads lines of a file, tfs_command_parse makes *)
(* commands of them, tfs_command_to_string text of commands, the text goes *)
(* through two buffers, and the server parses what is left of it.          *)
(*                                                                         *)
(* Texts are sequences of characters, and paths texts.  There is one       *)
(* client, and it waits for the server: TfsRemote has many.                *)
(***************************************************************************)
EXTENDS Naturals, Sequences, SequencesExt, FiniteSetsExt

CONSTANTS
    Char,         \* the characters of texts
    LineSize,     \* command.c: char line[1024]
    SendSize,     \* client-api.c: char command_str[1024]
    RecvSize,     \* tecnicofs.c: sizeof(command_str) - 1, 511
    Files,        \* what the client program may be given to read
    Calls         \* what other programs may call in client-api.h

\* The end of a C string, which no text contains.
NUL == "NUL"
Byte == Char \cup {NUL}

\* struct TfsCommand
Command ==
    [op : {"search", "remove", "print"}, path : Seq(Char)]
        \cup [op : {"create"}, path : Seq(Char), type : {"file", "dir"}]
        \cup [op : {"move"}, path : Seq(Char), dest : Seq(Char)]

ASSUME WireAssumption ==
    /\ LineSize \in Nat /\ SendSize \in Nat /\ RecvSize \in Nat \ {0}
    /\ RecvSize < LineSize /\ RecvSize < SendSize
    /\ {" ", "c", "l", "d", "m", "p", "f"} \subseteq Char /\ NUL \notin Char
    /\ Files \subseteq Seq(Char) /\ Calls \subseteq Command

VARIABLES
    file,         \* what the client program has yet to read
    line,         \* cur_line of process_input
    status,       \* the client: "reading", "waiting", "ended", "failed"
    reported,     \* the kind of the parse error it reported, "none" before
    socket,       \* the datagram on its way, <<>> if there is none
    whole,        \* history: the file as it was
    asked,        \* history: the commands the client sent
    executed      \* history: what the server made of each

vars == <<file, line, status, reported, socket, whole, asked, executed>>

Space == {" ", "\n"}

\* A command nobody executes: what a text that cannot be parsed is.
Refused == [op |-> "none"]

Init ==
    /\ file \in Files
    /\ whole = file
    /\ line = 1
    /\ status = "reading"
    /\ reported = "none"
    /\ socket = <<>>
    /\ asked = <<>>
    /\ executed = <<>>

-----------------------------------------------------------------------------
\* Texts.
From(text, k) == SubSeq(text, k, Len(text))
Cut(text, size) == SubSeq(text, 1, Min({Len(text), size}))

\* Where the first character of a kind is, 0 if there is none.
FirstIn(text, chars) == SelectInSeq(text, LAMBDA ch : ch \in chars)

\* The text up to and with that character, and before it: all of it if there
\* is none.
Through(text, chars) ==
    IF FirstIn(text, chars) = 0 THEN text ELSE SubSeq(text, 1, FirstIn(text, chars))
Before(text, chars) ==
    IF FirstIn(text, chars) = 0 THEN text ELSE SubSeq(text, 1, FirstIn(text, chars) - 1)

\* while isspace(...): what follows the blanks a text begins with.
AfterSpace(text) ==
    LET k == FirstIn(text, Byte \ Space) IN
    IF k = 0 THEN <<>> ELSE From(text, k)

\* A fault of FirstLine, for the mutants of the runs: no end at a newline.
FirstLine_Endless(text) == Cut(text, LineSize - 1)

\* fgets
FirstLine(text) == Cut(Through(text, {"\n"}), LineSize - 1)

\* sscanf(line, " %c %1023s %1023s"): the tokens it has read.
Tokens(text) ==
    LET command == AfterSpace(text)
        first == AfterSpace(From(command, 2))
        second == AfterSpace(From(first, Len(Before(first, Space)) + 1))
    IN  CASE command = <<>> -> <<>>
          [] command # <<>> /\ first = <<>> -> <<Cut(command, 1)>>
          [] first # <<>> /\ second = <<>> -> <<Cut(command, 1), Before(first, Space)>>
          [] OTHER -> <<Cut(command, 1), Before(first, Space), Before(second, Space)>>

\* The letter of each operation, the number of tokens it needs, and the types
\* of inodes.
Letter == [create |-> "c", search |-> "l", remove |-> "d", move |-> "m", print |-> "p"]
Needed == [create |-> 3, search |-> 2, remove |-> 2, move |-> 3, print |-> 2]
TypeLetter == [file |-> "f", dir |-> "d"]

Operations(tokens) == {op \in DOMAIN Letter : tokens # <<>> /\ tokens[1] = <<Letter[op]>>}
Types(token) == {type \in DOMAIN TypeLetter : token = <<TypeLetter[type]>>}

\* The errors of tfs_command_parse, for a line that could be read.  An unknown
\* letter stores its kind in the other member of the union, and the kind of
\* the error stays 0, which is ReadLine.
ParseError(tokens) ==
    CASE tokens = <<>> -> "NoCommand"
      [] tokens # <<>> /\ Operations(tokens) = {} -> "ReadLine"
      [] \E op \in Operations(tokens) : Len(tokens) # Needed[op] -> "MissingArgs"
      [] Operations(tokens) = {"create"} /\ Len(tokens) = 3 /\ Types(tokens[3]) = {} -> "InvalidType"
      [] OTHER -> "none"

\* The command tfs_command_parse returns when there is none.
Parsed(tokens) ==
    LET op == CHOOSE op \in Operations(tokens) : TRUE IN
    CASE op = "create" ->
            [op |-> op, path |-> tokens[2], type |-> CHOOSE type \in Types(tokens[3]) : TRUE]
      [] op = "move" -> [op |-> op, path |-> tokens[2], dest |-> tokens[3]]
      [] OTHER -> [op |-> op, path |-> tokens[2]]

\* tfs_command_to_string, before it is cut to the buffer.
ToText(command) ==
    <<Letter[command.op], " ">> \o command.path \o
        (CASE command.op = "create" -> <<" ", TypeLetter[command.type]>>
           [] command.op = "move" -> <<" ">> \o command.dest
           [] OTHER -> <<>>)

\* A fault of Datagram, for the mutants of the runs: the buffer of the server
\* is used for the text too.
Datagram_Short(command) == Append(Cut(ToText(command), RecvSize - 1), NUL)

\* What is sent: the text in its buffer, with the NUL at its end.
Datagram(command) == Append(Cut(ToText(command), SendSize - 1), NUL)

\* What the server makes of a datagram: the kernel drops what its buffer does
\* not hold, and sscanf stops at the NUL if that is still there.
Served(datagram) ==
    LET tokens == Tokens(Before(FirstLine(Cut(datagram, RecvSize)), {NUL})) IN
    IF ParseError(tokens) = "none" THEN Parsed(tokens) ELSE Refused

-----------------------------------------------------------------------------
\* One round of the loop of process_input.  The blanks before a line, and
\* lines of nothing but blanks, are skipped without counting them.
Unread == AfterSpace(file)
NextLine == FirstLine(Unread)

\* A fault of SkipComment, for the mutants of the runs: comments are not
\* counted either.
SkipComment_Uncounted ==
    /\ status = "reading" /\ Unread # <<>> /\ Head(Unread) = "#"
    /\ file' = From(Unread, Len(Through(Unread, {"\n"})) + 1)
    /\ UNCHANGED <<line, status, reported, socket, whole, asked, executed>>

SkipComment ==
    /\ status = "reading" /\ Unread # <<>> /\ Head(Unread) = "#"
    /\ file' = From(Unread, Len(Through(Unread, {"\n"})) + 1)
    /\ line' = line + 1
    /\ UNCHANGED <<status, reported, socket, whole, asked, executed>>

Stop ==
    /\ status = "reading" /\ Unread = <<>>
    /\ file' = <<>>
    /\ status' = "ended"
    /\ UNCHANGED <<line, reported, socket, whole, asked, executed>>

HasLine == status = "reading" /\ Unread # <<>> /\ Head(Unread) # "#"

\* tfs_client_server_connection_send_command, up to its recv.
SendCommand(command) ==
    /\ socket' = Datagram(command)
    /\ asked' = Append(asked, command)
    /\ status' = "waiting"
    /\ UNCHANGED <<line, reported, whole, executed>>

ReadCommand ==
    /\ HasLine
    /\ ParseError(Tokens(NextLine)) = "none"
    /\ file' = From(Unread, Len(NextLine) + 1)
    /\ SendCommand(Parsed(Tokens(NextLine)))

\* A line that is not a command ends the program.
ReadFails ==
    /\ HasLine
    /\ ParseError(Tokens(NextLine)) # "none"
    /\ reported' = ParseError(Tokens(NextLine))
    /\ file' = From(Unread, Len(NextLine) + 1)
    /\ status' = "failed"
    /\ UNCHANGED <<line, socket, whole, asked, executed>>

\* Another program calls tfsCreate, tfsDelete, tfsLookup, tfsMove or tfsPrint.
Call ==
    /\ status = "reading" /\ whole = <<>> /\ asked = <<>>
    /\ \E command \in Calls : SendCommand(command)
    /\ UNCHANGED file

\* The answer is there: the client goes on to its next line.
Continue ==
    /\ status = "waiting"
    /\ status' = "reading"
    /\ line' = line + 1
    /\ UNCHANGED <<file, reported, whole, asked>>

\* The worker parses the text, executes the command or not, and answers.
Serve ==
    /\ Continue
    /\ executed' = Append(executed, Served(socket))
    /\ socket' = <<>>

Next == SkipComment \/ Stop \/ ReadCommand \/ ReadFails \/ Call \/ Serve

Spec == Init /\ [][Next]_vars
=============================================================================
