----------------------------- MODULE TfsWireProps -----------------------------
(***************************************************************************)
(* What a file of commands means, and what arrives of it.                  *)
(***************************************************************************)
EXTENDS TfsWire

\* The places of a text that are not blank.
Solid(text) == {k \in 1 .. Len(text) : text[k] \notin Space}

\* No character of a kind is at or between two places; and the text from a
\* place on, up to the next such character.
Free(text, chars, j, k) == \A i \in j .. k : text[i] \notin chars
Stretch(text, chars, k) ==
    SubSeq(text, k, Max({j \in k .. Len(text) : Free(text, chars, k, j)}))

\* Where the lines that are not blank begin, without the blanks before them;
\* those that are not comments; and how many of some places there are up to k.
LineBegins(text) ==
    {k \in Solid(text) : \A j \in Solid(text) : j < k => ~Free(text, {"\n"}, j, k)}
CommandBegins(text) == {k \in LineBegins(text) : text[k] # "#"}
UpTo(places, k) == Cardinality({j \in places : j <= k})

\* A line: the letter of the operation, which its first argument may follow
\* at once, and the arguments.  Creates and moves take two and ignore others.
ArgumentBegins(text) == {k \in Solid(text) \ {1} : k = 2 \/ k - 1 \notin Solid(text)}

\* The command a line means, if it means one.
Meanings(text) ==
    LET args == ArgumentBegins(text)
        others == args \ {Min(args)}
        Word(k) == Stretch(text, Space, k)
        words == {Word(k) : k \in args}
        Means(command) ==
            /\ text[1] = Letter[command.op]
            /\ command.path = Word(Min(args))
            /\ CASE command.op = "create" ->
                        others # {} /\ Word(Min(others)) = <<TypeLetter[command.type]>>
                 [] command.op = "move" -> others # {} /\ Word(Min(others)) = command.dest
                 [] OTHER -> others = {}
        commands ==
            [op : {"search", "remove", "print"}, path : words]
                \cup [op : {"create"}, path : words, type : DOMAIN TypeLetter]
                \cup [op : {"move"}, path : words, dest : words]
    IN  {command \in commands : Means(command)}
MeaningsAt(text, k) == Meanings(Stretch(text, {"\n"}, k))

\* fgets can hold each line.
LinesFit(text) ==
    \A j \in 1 .. Len(text) : \A k \in j .. Len(text) :
        Free(text, {"\n"}, j, k) => k - j + 1 < LineSize

\* The client program sends the commands of its file, each once and in their
\* order, up to its end or to the first line that is none, provided fgets can
\* hold each line.  (tecnicofs-client.c:16: "Processes all input from `in`,
\* sending it to the server".)
FileUnderstood ==
    LinesFit(whole) /\ whole # <<>> =>
        LET begins == CommandBegins(whole) IN
        /\ \A k \in begins :
              UpTo(begins, k) <= Len(asked) => asked[UpTo(begins, k)] \in MeaningsAt(whole, k)
        /\ Len(asked) <= Cardinality(begins)
        /\ status = "ended" => Len(asked) = Cardinality(begins)
        /\ status = "failed" =>
              \E k \in begins : UpTo(begins, k) = Len(asked) + 1 /\ MeaningsAt(whole, k) = {}

\* The paths of a command that are words.
PathsOf(command) == {command.path} \cup (IF command.op = "move" THEN {command.dest} ELSE {})
Plain(command) == \A p \in PathsOf(command) : p # <<>> /\ ToSet(p) \cap Space = {}

\* Of a command whose paths are words the server executes what the client
\* asked for if the text fits its buffer, to the last byte.  A longer one it
\* refuses, or takes for the same operation on a shorter path, and never for
\* a create: its type is lost.  (tecnicofs.c:119-122.)
Arrives ==
    \A n \in DOMAIN executed : Plain(asked[n]) =>
        IF Len(ToText(asked[n])) <= RecvSize
        THEN executed[n] = asked[n]
        ELSE \/ executed[n] = Refused
             \/ /\ executed[n].op = asked[n].op /\ executed[n].op # "create"
                /\ executed[n].op = "move" =>
                      executed[n].path = asked[n].path /\ IsPrefix(executed[n].dest, asked[n].dest)
                /\ IsPrefix(executed[n].path, asked[n].path)

\* Which line of a text a place is in, as editors count; and the lines before
\* it that are blank, by their ends.
Newlines(text, k) == {j \in 1 .. k - 1 : text[j] = "\n"}
LineNumber(text, k) == Cardinality(Newlines(text, k)) + 1
BlankLines(text, k) ==
    {j \in Newlines(text, k) :
        \A i \in Solid(text) : i < j => ~Free(text, {"\n"}, i, j - 1)}

\* When a line ends the program, that is the line after those of the commands
\* it sent, and the report is about it.  It falls short of its documentation
\* twice, by exactly this much.  "Unable to parse line %zu"
\* (tecnicofs-client.c:83) gives the number of the line less one for each
\* blank line before it; and "Unable to read line" (command.h:92) is said of a
\* line that was read, just when its letter is unknown, where command.h:98 has
\* "Invalid command".
FailureReported ==
    status = "failed" /\ LinesFit(whole) =>
        \E k \in CommandBegins(whole) :
            /\ UpTo(CommandBegins(whole), k) = Len(asked) + 1
            /\ line = LineNumber(whole, k) - Cardinality(BlankLines(whole, k))
            /\ reported = "ReadLine" <=> \A op \in DOMAIN Letter : whole[k] # Letter[op]
=============================================================================
