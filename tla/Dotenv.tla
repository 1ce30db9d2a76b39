------------------------------- MODULE Dotenv -------------------------------
(* The .env text the variables editor keeps: how a list of variables is written and *)
(* how a text is read back.  A text is a sequence of characters of eight kinds, the  *)
(* ones the rules tell apart: "n" stands for every character of a key, and it is the *)
(* one a backslash turns into a newline.                                             *)
EXTENDS Naturals, Sequences, SequencesExt

CONSTANT MaxTyped   \* bound of the model: characters typed

VARIABLE typed
vars == <<typed>>

Chars  == {"n", "=", "#", "space", "newline", "dq", "sq", "bs"}
Spaces == {"space", "newline"}

Init == typed = <<>>
Type == Len(typed) < MaxTyped /\ \E c \in Chars : typed' = Append(typed, c)
Next == Type
Spec == Init /\ [][Next]_vars

-----------------------------------------------------------------------------
IsAt(s, i, c)  == i \in DOMAIN s /\ s[i] = c
Between(s, q)  == Len(s) >= 2 /\ IsAt(s, 1, q) /\ IsAt(s, Len(s), q)
Inner(s)       == SubSeq(s, 2, Len(s) - 1)
After(s, i)    == SubSeq(s, i + 1, Len(s))
trimEnd(s)     == SubSeq(s, 1, SelectLastInSeq(s, LAMBDA c : c \notin Spaces))
trimStart(s)   == LET i == SelectInSeq(s, LAMBDA c : c \notin Spaces) IN IF i = 0 THEN <<>> ELSE After(s, i - 1)
trim(s)        == trimEnd(trimStart(s))
lines(s) ==
    FoldLeft(LAMBDA ls, c : IF c = "newline" THEN Append(ls, <<>>) ELSE [ls EXCEPT ![Len(ls)] = Append(@, c)],
             <<<<>>>>, s)

\* Fault: a backslash is written as it is.
escaped_BareBackslash(c) == IF c = "newline" THEN <<"bs", "n">> ELSE IF c = "dq" THEN <<"bs", "dq">> ELSE <<c>>

\* Writing.
escaped(c) == CASE c = "newline" -> <<"bs", "n">> [] c \in {"bs", "dq"} -> <<"bs", c>> [] OTHER -> <<c>>
quote(value) ==
    IF value = <<>> THEN <<"dq", "dq">>
    ELSE IF ToSet(value) \subseteq {"n", "="} THEN value
    ELSE <<"dq">> \o FlattenSeq([i \in DOMAIN value |-> escaped(value[i])]) \o <<"dq">>

toDotenv(rows) ==
    FoldLeftDomain(LAMBDA text, i :
        text \o (IF i = 1 THEN <<>> ELSE <<"newline">>) \o rows[i].key \o <<"=">> \o quote(rows[i].value), <<>>, rows)

\* Reading.  A backslash takes the character after it along.
escapes(s) ==
    FoldLeftDomain(LAMBDA found, i : IF s[i] = "bs" /\ i - 1 \notin found THEN found \cup {i} ELSE found, {}, s)
unescaped(s) ==
    LET pairs == {i \in escapes(s) : i < Len(s) /\ s[i + 1] \in {"n", "dq", "bs"}}
        read(i) == IF i \in pairs THEN <<>>
                   ELSE IF i - 1 \in pairs /\ s[i] = "n" THEN <<"newline">> ELSE <<s[i]>>
    IN FlattenSeq([i \in DOMAIN s |-> read(i)])
unquote(raw) ==
    IF Between(raw, "sq") THEN Inner(raw) ELSE IF Between(raw, "dq") THEN unescaped(Inner(raw)) ELSE raw

closingQuote(raw) ==
    LET body == After(raw, 1)
        ends == {i \in DOMAIN body : body[i] = "dq" /\ i - 1 \notin escapes(body)}
    IN IF ends = {} THEN 0 ELSE 1 + Min(ends)

IsNote(rest)  == trimStart(rest) # rest /\ IsAt(trimStart(rest), 1, "#")
Quoted(raw, end) == IF end # 0 /\ (end = Len(raw) \/ IsNote(After(raw, end))) THEN SubSeq(raw, 1, end) ELSE raw
Bare(raw) ==
    LET notes == {i \in DOMAIN raw : IsNote(After(raw, i - 1))}
    IN IF notes = {} THEN raw ELSE SubSeq(raw, 1, Min(notes) - 1)
withoutComment(raw) ==
    IF IsAt(raw, 1, "dq") THEN Quoted(raw, closingQuote(raw))
    ELSE IF IsAt(raw, 1, "sq")
        THEN Quoted(raw, SelectInSubSeq(raw, 2, Len(raw), LAMBDA c : c = "sq"))
        ELSE Bare(raw)

(* One pass over the lines; a double quote left open takes the lines up to its close. *)
Closed        == [key |-> <<>>, raw |-> <<>>, open |-> FALSE]
Row(key, raw) == [key |-> key, value |-> unquote(withoutComment(raw))]
problem       == [problem |-> TRUE]
Fresh(found, line) ==
    LET equals == SelectInSeq(line, LAMBDA c : c = "=")
        key    == trim(SubSeq(line, 1, equals - 1))
        raw    == trim(After(line, equals))
    IN IF line = <<>> \/ IsAt(line, 1, "#") THEN [found |-> found, last |-> Closed]
       ELSE IF equals = 0 THEN [found |-> Append(found, problem), last |-> Closed]
       ELSE IF IsAt(raw, 1, "dq") /\ closingQuote(raw) = 0
         THEN [found |-> found, last |-> [key |-> key, raw |-> raw, open |-> TRUE]]
         ELSE [found |-> Append(found, Row(key, raw)), last |-> Closed]
RunsOn(found, last, line) ==
    LET raw == last.raw \o <<"newline">> \o trimEnd(line)
    IN IF closingQuote(raw) = 0
         THEN [found |-> found, last |-> [last EXCEPT !.raw = raw]]
         ELSE [found |-> Append(found, Row(last.key, raw)), last |-> Closed]
entries(text) ==
    LET read == FoldLeft(LAMBDA state, line :
                    IF state.last.open THEN RunsOn(state.found, state.last, line) ELSE Fresh(state.found, trim(line)),
                    [found |-> <<>>, last |-> Closed], lines(text))
    IN IF read.last.open THEN Append(read.found, problem) ELSE read.found

fromDotenv(text) ==
    LET found == entries(text)
    IN FlattenSeq([i \in DOMAIN found |-> IF found[i] = problem THEN <<>> ELSE <<found[i]>>])
lineProblems(text) == problem \in ToSet(entries(text))

-----------------------------------------------------------------------------
TypeOK == typed \in Seq(Chars) /\ Len(typed) <= MaxTyped

(* Whatever a stored value holds, quotes, backslashes, line breaks, a comment sign,  *)
(* the text written for it reads back as that value and the rows around it survive.   *)
EveryValueRoundTrips ==
    LET rows == <<[key |-> <<"n">>, value |-> typed], [key |-> <<"n", "n">>, value |-> <<"n">>],
                  [key |-> <<"n">>, value |-> typed]>>
    IN fromDotenv(toDotenv(rows)) = rows

(* A text the table opens on is rewritten by the first edit in it: the rewriting     *)
(* keeps every key and value, however the text spelled, quoted or commented them.     *)
TableKeepsTheText ==
    \A text \in {typed, <<"n", "=">> \o typed} :
        ~lineProblems(text) => fromDotenv(toDotenv(fromDotenv(text))) = fromDotenv(text)
=============================================================================
