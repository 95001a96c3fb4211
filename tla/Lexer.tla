------------------------------- MODULE Lexer --------------------------------
(***************************************************************************)
(* The tokenizer (tokenizer.go 76-459) and a line typed into it.  A text   *)
(* is a sequence of characters, a token the sequence of its characters;    *)
(* which group it is in follows from them.  Letters, digits and blanks are *)
(* a few of each, "n" ends a line and "e" begins an exponent.              *)
(***************************************************************************)
EXTENDS Naturals, Sequences, FiniteSetsExt

CONSTANTS
    MaxLine,     \* bound: characters of a line
    Chars        \* the characters a line is typed with

VARIABLE line

Letters == {"a", "e"}
Digit   == "1"
Blanks  == {" ", "n"}
Quotes  == {"backtick", "string", "uneval"}
Escape  == "x"               \* the backslash

Pairs ==
    {<<":", "=">>, <<":", "-">>, <<":", ":">>, <<".", ".">>, <<"-", ">">>, <<"*", "*">>,
     <<"@", "@">>, <<"<", "=">>, <<"<", ">">>, <<"<", "|">>, <<">", "=">>, <<"|", "|">>}

Singles ==
    {"(", ")", "[", "]", "{", "}", ",", ";", ":", ".", "+", "-", "*", "/", "^", "$", "!", "@",
     "<", ">", "=", "|"}

Char(s, i) == IF i \in DOMAIN s THEN s[i] ELSE "eof"

\* The first place from i on that is not in the run.
PastRun(s, i, run) == Min({k \in i..(Len(s) + 1) : k \notin run})

NameRun(s) == {k \in DOMAIN s : s[k] \in Letters \cup {Digit}}

\* An exponent begins at k: digits follow the letter, or a sign and digits.
StartsExponent(s, k) ==
    /\ s[k] = "e"
    /\ \/ Char(s, k + 1) = Digit
       \/ Char(s, k + 1) \in {"+", "-"} /\ Char(s, k + 2) = Digit

\* The character at k goes on with a number: a dot unless it is half of a
\* range, the letter of an exponent, and its sign.
InNumber(s, k) ==
    \/ s[k] = Digit
    \/ s[k] = "." /\ Char(s, k + 1) # "."
    \/ StartsExponent(s, k)
    \/ s[k] \in {"+", "-"} /\ StartsExponent(s, k - 1)

\* Mutant: a digit takes every dot along.
DotsTaken(s, i) == {k \in (i + 1)..Len(s) : s[k] \in {Digit, "."}}

NumberRun(s, i) == {k \in (i + 1)..Len(s) : InNumber(s, k)}

PercentRun(s) == {k \in DOMAIN s : s[k] = "%"}
LineRun(s) == {k \in DOMAIN s : s[k] # "n"}

\* The place after the quote q that closes a text begun before i; an escaped
\* character closes nothing.  0 if there is none.
QuoteEnd(s, i, q) ==
    LET end[k \in 1..(Len(s) + 1)] ==
          IF k > Len(s) THEN 0
          ELSE IF s[k] = q THEN k + 1
          ELSE end[IF s[k] = Escape /\ k < Len(s) THEN k + 2 ELSE k + 1]
    IN  end[i]

StartsNumber(s, i) == s[i] = Digit \/ (s[i] = "." /\ Char(s, i + 1) = Digit)
StartsPair(s, i) == <<s[i], Char(s, i + 1)>> \in Pairs

\* What starts at i: the place after it, 0 if it is not closed or unknown.
TokenEnd(s, i) ==
    CASE s[i] \in Quotes     -> QuoteEnd(s, i + 1, s[i])
      [] StartsNumber(s, i)  -> PastRun(s, i, {i} \cup NumberRun(s, i))
      [] s[i] \in Letters    -> PastRun(s, i, NameRun(s))
      [] StartsPair(s, i)    -> i + 2
      [] s[i] = "%"          -> PastRun(s, i, PercentRun(s))
      [] s[i] = "&"          -> PastRun(s, i + 1, NameRun(s))
      [] s[i] = Escape       -> IF i < Len(s) THEN i + 2 ELSE i + 1
      [] OTHER               -> IF s[i] \in Singles THEN i + 1 ELSE 0

\* Blanks, comments, help lines and continued lines leave nothing.
SkipEnd(s, i) ==
    CASE s[i] \in Blanks -> i + 1
      [] s[i] \in {"#", "?"} -> PastRun(s, i, LineRun(s))
      [] s[i] = Escape /\ Char(s, i + 1) = "n" -> i + 2
      [] OTHER -> i

\* Stands behind the tokens read so far when the rest cannot be read.
Broken == <<>>

TokensFrom(s, i) ==
    LET from[k \in 1..(Len(s) + 1)] ==
          IF k > Len(s) THEN <<>>
          ELSE IF SkipEnd(s, k) > k THEN from[SkipEnd(s, k)]
          ELSE IF TokenEnd(s, k) = 0 THEN <<Broken>>
          ELSE <<SubSeq(s, k, TokenEnd(s, k) - 1)>> \o from[TokenEnd(s, k)]
    IN  from[i]

Tokenize(s) == TokensFrom(s, 1)

-----------------------------------------------------------------------------
(* A line is typed character by character.                                 *)

LineInit == line = <<>>

TypeChar(c) == Len(line) < MaxLine /\ line' = Append(line, c)

LineSpec == LineInit /\ [][\E c \in Chars : TypeChar(c)]_line

-----------------------------------------------------------------------------

\* The tokens from the i-th on, a blank before each.
SpacedFrom(tokens, i) ==
    LET from[k \in 1..(Len(tokens) + 1)] ==
          IF k > Len(tokens) THEN <<>> ELSE <<" ">> \o tokens[k] \o from[k + 1]
    IN  from[i]

Spaced(tokens) == SpacedFrom(tokens, 1)

HoldsRange(token) ==
    \E i \in 1..(Len(token) - 1) : token[i] = "." /\ token[i + 1] = "."

\* The tokens of a line do not depend on what stands beside them: set apart by
\* blanks they are the same tokens.  A range is never part of a number, which
\* takes dots of its own (the comment at tokenizer.go 222-224).
TokensStandAlone ==
    LET tokens == Tokenize(line)
    IN  (\A i \in DOMAIN tokens : tokens[i] # Broken) =>
            /\ Tokenize(Spaced(tokens)) = tokens
            /\ \A i \in DOMAIN tokens :
                  HoldsRange(tokens[i]) => Len(tokens[i]) = 2 \/ tokens[i][1] \in Quotes
=============================================================================
