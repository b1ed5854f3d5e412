----------------------------- MODULE InitScript -----------------------------
(***************************************************************************)
(* How init reads its scripts: parser.c and init_parser.c.                 *)
(*                                                                         *)
(* "text": next_token and the loop of parse_config that collects the words *)
(* of a line.  A text is a sequence of characters; "x" stands for any      *)
(* character that means nothing to the scanner.                            *)
(*                                                                         *)
(* "script": the lines are given to the section they belong to; files that *)
(* were imported are parsed after the file that names them.  A line is a   *)
(* sequence of words.                                                      *)
(***************************************************************************)
EXTENDS StartUp, Integers, Sequences, SequencesExt, FiniteSets

CONSTANTS
    Texts,      \* texts of a script
    MaxArgs,    \* INIT_PARSER_MAXARGS
    Scripts,    \* functions from file names to lines; "init.rc" is read first
    Props,      \* the properties that have a value, and its length
    ConfSize    \* room for the name of an imported file

-----------------------------------------------------------------------------
(* next_token                                                              *)

Char(t, x) == IF x <= Len(t) THEN t[x] ELSE "EOF"

Blanks == {" ", "CR"}

\* The first place from x on where the text has no character of `some'.
Skip(t, x, some) ==
    CHOOSE y \in x .. (Len(t) + 1) :
        Char(t, y) \notin some /\ \A z \in x .. (y - 1) : t[z] \in some

Find(t, x, c) ==
    CHOOSE y \in x .. (Len(t) + 1) :
        Char(t, y) \in {c, "EOF"} /\ \A z \in x .. (y - 1) : t[z] # c

Token(t, ptr, next, line) == [type |-> t, ptr |-> ptr, next |-> next, line |-> line, text |-> <<>>]

\* From `text:' on: the word that begins at x, with `out' already copied.  After
\* an escaped letter the code leaves x on the letter, and a backslash before CR
\* LF leaves it on the LF.
RECURSIVE Word(_, _, _, _)
Word(t, x, out, line) ==
    LET c == Char(t, x)
        e == Char(t, x + 1)
        Done(y, next) == [Token("TEXT", y, next, line) EXCEPT !.text = out]
    IN  CASE c = "EOF" -> Done(x, FALSE)
          [] c \in Blanks -> Done(x + 1, FALSE)
          [] c = "NL" -> Done(x + 1, TRUE)
          [] c = "quote" ->
                LET q == Find(t, x + 1, "quote")
                IN  IF Char(t, q) = "EOF" THEN Token("EOF", q, FALSE, line)
                    ELSE Word(t, q + 1, out \o SubSeq(t, x + 1, q - 1), line)
          [] c = "esc" ->
                (CASE e = "EOF" -> Done(x + 1, FALSE)
                   [] e \in {"n", "esc"} ->
                        Word(t, x + 1, Append(out, IF e = "n" THEN "NL" ELSE e), line)
                   [] e = "CR" ->
                        Word(t, x + 2, out, IF Char(t, x + 2) = "NL" THEN line + 1 ELSE line)
                   [] e = "NL" -> Word(t, Skip(t, x + 2, {" "}), out, line + 1)
                   [] OTHER -> Word(t, x + 2, Append(out, e), line))
          [] OTHER -> Word(t, x + 1, Append(out, c), line)

next_token(t, ptr, line) ==
    LET x == Skip(t, ptr, Blanks)
        c == Char(t, x)
        end == Find(t, x, "NL")
    IN  CASE c = "EOF" -> Token("EOF", x, FALSE, line)
          [] c = "NL" -> Token("NEWLINE", x + 1, FALSE, line)
          [] c = "#" -> IF Char(t, end) = "EOF" THEN Token("EOF", end, FALSE, line)
                        ELSE Token("NEWLINE", end + 1, FALSE, line)
          [] OTHER -> Word(t, x, <<>>, line)

\* parse_config's loop: the words of a line are handed on at its end.
NewLine(s) ==
    [s EXCEPT !.line = @ + 1, !.args = <<>>,
              !.lines = IF s.args = <<>> THEN @
                        ELSE Append(@, [words |-> s.args, line |-> s.line])]

\* The end of line that ended a word is the next token.
TakeNext(s) == [NewLine(s) EXCEPT !.nexttoken = FALSE]

ReadToken(s) ==
    IF s.nexttoken THEN TakeNext(s)
    ELSE LET token == next_token(which.text, s.ptr, s.line)
             t == [s EXCEPT !.ptr = token.ptr, !.nexttoken = token.next, !.line = token.line]
         IN  CASE token.type = "EOF" -> [t EXCEPT !.phase = "parsed"]
               [] token.type = "NEWLINE" -> NewLine(t)
               [] token.type = "TEXT" ->
                    [t EXCEPT !.args = IF Len(@) < MaxArgs THEN Append(@, token.text) ELSE @]

NextToken ==
    /\ Runs("text")
    /\ UNCHANGED fails
    /\ Becomes(ReadToken(st))

\* read_file puts a newline at the end of what it read.
TextInit ==
    \E text \in Texts :
        /\ which = [kind |-> "text", text |-> Append(text, "NL")]
        /\ fails = 0
        /\ st = [phase |-> "running", misused |-> {}, told |-> <<>>, ptr |-> 1,
                 nexttoken |-> FALSE, line |-> 0, args |-> <<>>, lines |-> <<>>]

-----------------------------------------------------------------------------
(* Sections.  A file being parsed is a frame: the lines left, the list that *)
(* the lines go to, and the imports it has named.                           *)

Commands == [start |-> 2, mkdir |-> 2, write |-> 3, setprop |-> 3, class_start |-> 2]

IsCommand(words) ==
    words # <<>> /\ words[1] \in DOMAIN Commands /\ Len(words) >= Commands[words[1]]

\* What a word can be expanded to: literal text, a property, a brace that is
\* not closed.  The result must fit, except that a last literal is cut off.
expand_props(src, size) ==
    LET Step(acc, item) ==
            IF ~acc.ok \/ acc.left <= 0 THEN acc
            ELSE CASE item.t = "lit" ->
                        [acc EXCEPT !.ok = acc.last \/ item.n <= acc.left, !.left = @ - item.n]
                   [] item.t = "var" /\ item.n \in DOMAIN Props ->
                        [acc EXCEPT !.ok = Props[item.n] <= acc.left, !.left = @ - Props[item.n]]
                   [] OTHER -> [acc EXCEPT !.ok = FALSE]
        start == [ok |-> TRUE, left |-> size - 1, last |-> FALSE]
        front == FoldLeft(Step, start, SelectSeq(src, LAMBDA i : ~i.last))
        tail == SelectSeq(src, LAMBDA i : i.last)
    IN  FoldLeft(Step, [front EXCEPT !.last = TRUE], tail).ok

Frame(file) == [lines |-> which.files[file], to |-> "no_op", imports |-> <<>>]

service_find_by_name(s, name) == \E i \in DOMAIN s.services : s.services[i].name = name

valid_name(name) == name # "bad/name"

parse_service(s, words) ==
    IF Len(words) < 3 \/ ~valid_name(words[2]) \/ service_find_by_name(s, words[2]) THEN {}
    ELSE {[name |-> words[2], class |-> "default", flags |-> {}, sockets |-> <<>>,
           ioprio |-> "none", onrestart |-> <<>>, user |-> "root"]}

parse_action(words) ==
    IF Len(words) # 2 THEN {} ELSE {[name |-> words[2], commands |-> <<>>]}

\* A service's options; each line first forgets the io priority.
parse_line_service(svc, words) ==
    LET s == [svc EXCEPT !.ioprio = "none"]
        kw == words[1]
        cmd == Tail(words)
    IN  CASE kw = "class" /\ Len(words) = 2 -> [s EXCEPT !.class = words[2]]
          [] kw \in {"disabled", "oneshot", "critical", "console"} -> [s EXCEPT !.flags = @ \cup {kw}]
          [] kw = "ioprio" /\ Len(words) = 3 -> [s EXCEPT !.ioprio = words[2]]
          [] kw = "socket" /\ Len(words) >= 4 -> [s EXCEPT !.sockets = <<words[2]>> \o @]
          [] kw = "onrestart" /\ IsCommand(cmd) -> [s EXCEPT !.onrestart = Append(@, cmd)]
          [] kw = "user" /\ Len(words) = 2 -> [s EXCEPT !.user = words[2]]
          [] OTHER -> s

parse_line_action(act, words) ==
    IF IsCommand(words) THEN [act EXCEPT !.commands = Append(@, words)] ELSE act

Top(s) == s.stack[Len(s.stack)]

SetTop(s, frame) == [s EXCEPT !.stack[Len(s.stack)] = frame]

\* Mutant: a section that is refused leaves its lines to the section before it.
KeepContext(frame, section) == frame

\* parse_line_no_op takes the lines of a section that is refused.
Ignore(frame, section) == [frame EXCEPT !.to = "no_op"]

\* lookup_keyword and parse_new_section.
parse_new_section(s, frame, words) ==
    CASE words[1] = "service" ->
            LET new == parse_service(s, words)
            IN  IF new = {} THEN SetTop(s, Ignore(frame, "service"))
                ELSE [SetTop(s, [frame EXCEPT !.to = "service"])
                        EXCEPT !.services = @ \o SetToSeq(new)]
      [] words[1] = "on" ->
            LET new == parse_action(words)
            IN  IF new = {} THEN SetTop(s, Ignore(frame, "on"))
                ELSE [SetTop(s, [frame EXCEPT !.to = "action"])
                        EXCEPT !.actions = @ \o SetToSeq(new)]
      [] words[1] = "import" ->
            LET ok == Len(words) = 2 /\ expand_props(words[2].name, ConfSize)
            IN  SetTop(s, Ignore([frame EXCEPT !.imports =
                                    IF ok THEN Append(@, words[2].file) ELSE @], "import"))

\* Each frame handles one line; when it has none left, its imports are parsed in
\* turn, and a file that cannot be read is skipped.
ParseLine(s) ==
    LET frame == Top(s)
        words == Head(frame.lines)
        rest == [frame EXCEPT !.lines = Tail(@)]
    IN  IF words[1] \in {"service", "on", "import"} THEN parse_new_section(s, rest, words)
        ELSE LET t == SetTop(s, rest)
             IN  CASE frame.to = "no_op" -> t
                   [] frame.to = "service" ->
                        [t EXCEPT !.services[Len(s.services)] = parse_line_service(@, words)]
                   [] frame.to = "action" ->
                        [t EXCEPT !.actions[Len(s.actions)] = parse_line_action(@, words)]

NextImport(s) ==
    LET frame == Top(s)
        file == Head(frame.imports)
        t == SetTop(s, [frame EXCEPT !.imports = Tail(@)])
    IN  IF file \in DOMAIN which.files THEN [t EXCEPT !.stack = Append(@, Frame(file))] ELSE t

Parsed(s) ==
    LET below == SubSeq(s.stack, 1, Len(s.stack) - 1)
    IN  [s EXCEPT !.stack = below, !.phase = IF below = <<>> THEN "parsed" ELSE @]

ParseScript ==
    /\ Runs("script")
    /\ UNCHANGED fails
    /\ Becomes(IF Top(st).lines # <<>> THEN ParseLine(st)
               ELSE IF Top(st).imports # <<>> THEN NextImport(st) ELSE Parsed(st))

ScriptInit ==
    \E files \in Scripts :
        /\ which = [kind |-> "script", files |-> files]
        /\ fails = 0
        /\ st = [phase |-> "running", misused |-> {}, told |-> <<>>,
                 stack |-> <<[lines |-> files["init.rc"], to |-> "no_op", imports |-> <<>>]>>,
                 services |-> <<>>, actions |-> <<>>]
ScriptFileInit == TextInit \/ ScriptInit

ScriptNext == NextToken \/ ParseScript

ScriptReady == Runs("text") \/ Runs("script")

\* init reads on.
ScriptFairness == []<>(~ScriptReady) \/ []<><<ScriptNext>>_startVars

-----------------------------------------------------------------------------
(* What the scripts mean, without a scanner or a context.                  *)

\* The places where a word begins, apart from comments.
WordStart(t, i) ==
    t[i] \notin {" ", "CR", "NL"} /\ (i = 1 \/ t[i - 1] \in {" ", "CR", "NL"})

WordStarts(t) ==
    {i \in DOMAIN t :
        /\ WordStart(t, i)
        /\ \A j \in 1 .. i : WordStart(t, j) /\ t[j] = "#" => \E k \in j .. i : t[k] = "NL"}

LineOf(t, i) == Cardinality({j \in 1 .. (i - 1) : t[j] = "NL"})

Run(t, i) ==
    SubSeq(t, i, (CHOOSE e \in i .. Len(t) :
                    /\ \A k \in i .. e : t[k] \notin {" ", "CR", "NL"}
                    /\ t[e + 1] \in {" ", "CR", "NL"}))

Least(m, n) == IF m < n THEN m ELSE n

LinesMeant(t) ==
    LET starts == WordStarts(t)
        lines == SetToSortSeq({LineOf(t, i) : i \in starts}, <)
        Places(n) == SetToSortSeq({i \in starts : LineOf(t, i) = n}, <)
        WordsOf(n) == [k \in DOMAIN Places(n) |-> Run(t, Places(n)[k])]
    IN  [k \in DOMAIN lines |->
            [words |-> SubSeq(WordsOf(lines[k]), 1, Least(MaxArgs, Len(WordsOf(lines[k])))), line |-> lines[k]]]

\* All lines in the order in which they are parsed; each file begins with no
\* section open.
RECURSIVE Loaded(_, _)
Loaded(files, file) ==
    LET lines == files[file]
        named == SelectSeq(lines, LAMBDA l : l[1] = "import" /\ Len(l) = 2)
        Add(all, l) == IF expand_props(l[2].name, ConfSize) /\ l[2].file \in DOMAIN files
                       THEN all \o Loaded(files, l[2].file) ELSE all
    IN  FoldLeft(Add, <<<<"import">>>> \o lines, named)

IsSection(line) == line[1] \in {"service", "on", "import"}

\* The lines below the heading at i.
Below(all, i) ==
    LET end == CHOOSE e \in (i + 1) .. (Len(all) + 1) :
                    /\ e > Len(all) \/ IsSection(all[e])
                    /\ \A k \in (i + 1) .. (e - 1) : ~IsSection(all[k])
    IN  SubSeq(all, i + 1, end - 1)

Good(line) == line[1] = "service" /\ Len(line) >= 3 /\ valid_name(line[2])

Headings(all, test(_)) == SetToSortSeq({i \in DOMAIN all : test(i)}, <)

LastGiven(lines, kw, default) ==
    LET given == SelectSeq(lines, LAMBDA l : l[1] = kw /\ Len(l) = 2)
    IN  IF given = <<>> THEN default ELSE given[Len(given)][2]

ServiceMeant(all, i) ==
    LET lines == Below(all, i)
        given == SelectSeq(lines, LAMBDA l : l[1] = "socket" /\ Len(l) >= 4)
        again == SelectSeq(lines, LAMBDA l : l[1] = "onrestart" /\ IsCommand(Tail(l)))
    IN  [name |-> all[i][2], class |-> LastGiven(lines, "class", "default"),
         user |-> LastGiven(lines, "user", "root"),
         flags |-> {lines[k][1] : k \in DOMAIN lines}
                       \cap {"disabled", "oneshot", "critical", "console"},
         sockets |-> [k \in DOMAIN given |-> given[Len(given) + 1 - k][2]],
         onrestart |-> [k \in DOMAIN again |-> Tail(again[k])]]

ServicesMeant(all) ==
    LET First(i) == /\ Good(all[i])
                    /\ \A j \in 1 .. (i - 1) : ~(Good(all[j]) /\ all[j][2] = all[i][2])
        at == Headings(all, First)
    IN  [k \in DOMAIN at |-> ServiceMeant(all, at[k])]

ActionsMeant(all) ==
    LET Heading(i) == all[i][1] = "on" /\ Len(all[i]) = 2
        at == Headings(all, Heading)
    IN  [k \in DOMAIN at |-> [name |-> all[at[k]][2],
                              commands |-> SelectSeq(Below(all, at[k]), IsCommand)]]

\* A script that has been read means what it says.  The words of a line are
\* those between its blanks, up to a comment, with the number of their line.
\* The first definition of a service counts, with the options below its heading
\* and no other's, wherever the later ones are; the commands of an action are
\* the valid ones below its trigger, in order; and an imported file comes after
\* the file that imports it.  (The io priority is left out: parse_line_service
\* forgets it with the next option.)
ScriptMeant ==
    which.kind \in {"text", "script"} /\ st.phase = "parsed" =>
        IF which.kind = "text"
        THEN (\A i \in DOMAIN which.text : which.text[i] \notin {"quote", "esc"})
                => st.lines = LinesMeant(which.text)
        ELSE LET all == Loaded(which.files, "init.rc")
                 Without(svc) == [f \in DOMAIN svc \ {"ioprio"} |-> svc[f]]
             IN  /\ [k \in DOMAIN st.services |-> Without(st.services[k])] = ServicesMeant(all)
                 /\ st.actions = ActionsMeant(all)
=============================================================================
