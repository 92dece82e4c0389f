------------------------------ MODULE Untrusted ------------------------------
(***************************************************************************)
(* The sanitiser that every envelope passes its text through               *)
(* (internal/untrusted: sanitise, boundaryReplacer).                       *)
(*                                                                         *)
(* A text is a sequence of symbols: one for each rune the code tells       *)
(* apart, one for each word its rules look for (Human stands for the three *)
(* role names and the colon), and Letter for the rest.  Size stands for    *)
(* the length of a symbol in bytes; a word is cut whole.                   *)
(***************************************************************************)
EXTENDS Integers, SequencesExt

CONSTANTS
  MaxContentLen,  \* untrusted.MaxContentLen, in the units of Size
  MaxText         \* the longest text that is checked

VARIABLE text

ASSUME UntrustedAssumption == MaxContentLen \in Nat

\* unseen: a control character, or one isInvisible knows
Letter == "a"
Typed == {"lt", "bar", "gt", "slash", "tick", "newline", "return", "unseen",
          "Human", "system", Letter}

\* What only a replacement writes: the box-drawing bar, the quote mark, and a
\* word in brackets
Written == {"box", "quote", "bracketedHuman", "bracketedSystem", "bracketedEnd"}

\* The box-drawing bar takes three bytes where "|" takes one.
Size == [c \in Typed \cup Written |->
           CASE c = "box" -> 3
             [] c \in {"bracketedHuman", "bracketedSystem", "bracketedEnd"} -> 2
             [] OTHER -> 1]

Bytes(s) ==
  LET upto[n \in 0..Len(s)] == IF n = 0 THEN 0 ELSE upto[n - 1] + Size[s[n]]
  IN upto[Len(s)]

\* The first pass of sanitise: a carriage return becomes a newline, and what
\* renders as nothing goes.
Pass(out, c) ==
  IF c = "unseen" THEN out ELSE Append(out, IF c = "return" THEN "newline" ELSE c)
Visible(s) == FoldLeft(Pass, <<>>, s)

\* The rules of boundaryReplacer, in its order
Rule(old, new) == [old |-> old, new |-> new]
Rules ==
  << Rule(<<"lt", "bar">>, <<"lt", "box">>),
     Rule(<<"bar", "gt">>, <<"box", "gt">>),
     Rule(<<"tick", "tick", "tick">>, <<"quote", "quote", "quote">>),
     Rule(<<"newline", "newline", "Human">>, <<"newline", "newline", "bracketedHuman">>),
     Rule(<<"lt", "system", "gt">>, <<"bracketedSystem">>),
     Rule(<<"lt", "slash", "system", "gt">>, <<"bracketedEnd">>) >>

\* The pattern is in s at place i.
OccursAt(pattern, s, i) ==
  /\ i + Len(pattern) - 1 <= Len(s)
  /\ \A k \in 1..Len(pattern) : s[i + k - 1] = pattern[k]

\* strings.Replacer: one pass from the left, at each place the first rule that
\* matches there, and never again over what a rule has written.  rest is what
\* becomes of s from each later place on.
Matching(s, i) == {r \in DOMAIN Rules : OccursAt(Rules[r].old, s, i)}
Rewrite(s, i, rest) ==
  IF i > Len(s) THEN <<>>
  ELSE IF Matching(s, i) = {} THEN <<s[i]>> \o rest[i + 1]
  ELSE LET rule == Rules[Min(Matching(s, i))]
       IN rule.new \o rest[i + Len(rule.old)]
Replace(s) ==
  LET from[i \in 1..(Len(s) + 1)] == Rewrite(s, i, from)
  IN from[1]

\* The last pass: the longest beginning, in whole runes, within the bound
Truncate(s) ==
  LET within == {n \in 0..Len(s) : Bytes(SubSeq(s, 1, n)) <= MaxContentLen}
  IN SubSeq(s, 1, Max(within))

\* Mutants: the flag is set by the text as it came; what renders as nothing goes
\* after the rules have run
SanitiseFlagsTyped(s) ==
  [content |-> Truncate(Replace(Visible(s))),
   truncated |-> Bytes(s) > MaxContentLen]
SanitiseStripLast(s) ==
  LET out == Visible(Replace(s))
  IN [content |-> Truncate(out), truncated |-> Bytes(out) > MaxContentLen]

Sanitise(s) ==
  LET out == Replace(Visible(s))
  IN [content |-> Truncate(out), truncated |-> Bytes(out) > MaxContentLen]

-----------------------------------------------------------------------------
TextInit == text = <<>>

Type ==
  /\ Len(text) < MaxText
  /\ \E c \in Typed : text' = Append(text, c)

Stop == Len(text) = MaxText /\ UNCHANGED text

TextNext == Type \/ Stop

TextSpec == TextInit /\ [][TextNext]_text

-----------------------------------------------------------------------------
Content == Sanitise(text).content

Holds(s, pattern) ==
  \E i \in 1..Len(s) : OccursAt(pattern, s, i)

(* No imitation of a message boundary is left, not even one that only        *)
(* appears once an invisible character is gone, a carriage return has become *)
(* a newline, a neighbouring rule has written, or the text has been cut.     *)
(* And so it stays: text that passes through twice is as it was after the    *)
(* first time (the comment on boundaryReplacer: a rule must not match its    *)
(* own output), which puts what is returned within the bound, though a       *)
(* replacement can be longer than what it replaces.                          *)
NoBoundaryLeft ==
  /\ \A r \in DOMAIN Rules : ~Holds(Content, Rules[r].old)
  /\ ToSet(Content) \cap {"return", "unseen"} = {}
  /\ Sanitise(Content) = [content |-> Content, truncated |-> FALSE]

(* The text stays reportable: with no boundary and nothing invisible in it,  *)
(* a text within the bound comes back as it was; and a text is flagged as    *)
(* truncated exactly when something of it was cut.                           *)
Legible ==
  LET plain == /\ ToSet(text) \cap {"return", "unseen"} = {}
               /\ \A r \in DOMAIN Rules : ~Holds(text, Rules[r].old)
      out == Sanitise(text)
  IN /\ plain /\ Bytes(text) <= MaxContentLen => out.content = text
     /\ out.truncated <=> out.content # Replace(Visible(text))

=============================================================================
