------------------------------ MODULE ConsoleLine ------------------------------
(***************************************************************************)
(* The record of what a person types into an agent's terminal              *)
(* (ConsoleLineBuffer): lines are put together again from the bytes of the *)
(* keys, beside the session, which edits a line of its own.                *)
(*                                                                         *)
(* The session's editor is external: a line with a cursor, as the command  *)
(* line agents have it.  Left out: characters of several bytes, an Esc     *)
(* alone, whose meaning hangs on time, and who else types into the pane.   *)
(***************************************************************************)
EXTENDS Integers, Sequences, SequencesExt

CONSTANTS
  Letters, Space,  \* what can be typed; one of them is white
  LineMax,         \* CONSOLE_LINE_MAX_BYTES
  MaxPresses       \* bound: keys

VARIABLES
  edited,   \* the session's line, before and behind its cursor
  pasting,  \* between the marks of a paste
  buffer,   \* the ConsoleLineBuffer
  taken,    \* history: the line the session took last, and what was recorded of it
  plain,    \* history: the line was only typed, erased and pasted
  long,     \* history: it was longer than the buffer
  presses   \* keys so far

clVars == <<edited, pasting, buffer, taken, plain, long, presses>>

Newline == "newline"
Chars == Letters \union {Newline, "[", "A", "O", "200", "201", "~"}
NoLine == <<"nothing">>
NamedKeys == {"enter", "erase", "newline", "left", "recall", "kill", "meta", "paste", "pasted"}
KeyNames == Letters \union NamedKeys

ASSUME ConsoleLineAssumption ==
  /\ Space \in Letters /\ Letters \cap (NamedKeys \union {"esc", "cr", "bs", "ctrl"}) = {}
  /\ LineMax \in Nat \ {0} /\ MaxPresses \in Nat

ClTypeOK ==
  /\ ToSet(edited.before) \union ToSet(edited.behind) \subseteq Chars
  /\ ToSet(buffer.bytes) \subseteq Chars /\ Len(buffer.bytes) <= LineMax
  /\ buffer.state \in {"text", "esc", "csi", "ss3"}
  /\ {buffer.paste, buffer.poisoned, pasting, plain, long} \subseteq BOOLEAN
  /\ presses \in 0..MaxPresses

EmptyLine == [before |-> <<>>, behind |-> <<>>]
NoBuffer == [bytes |-> <<>>, state |-> "text", csi |-> <<>>, paste |-> FALSE, poisoned |-> FALSE,
             submitted |-> NoLine]

ClStart ==
  /\ edited = EmptyLine /\ pasting = FALSE /\ buffer = NoBuffer
  /\ taken = [text |-> <<>>, recorded |-> NoLine, plain |-> TRUE, long |-> FALSE]
  /\ plain = TRUE /\ long = FALSE /\ presses = 0

IsBlank(text) == \A i \in DOMAIN text : text[i] \in {Space, Newline}

-----------------------------------------------------------------------------
(* ConsoleLineBuffer.feed, byte by byte. *)

PushByteEndless(b, byte) == IF b.poisoned THEN b ELSE [b EXCEPT !.bytes = Append(@, byte)]

PushByte(b, byte) ==
  IF Len(b.bytes) >= LineMax THEN [b EXCEPT !.bytes = <<>>, !.poisoned = TRUE]
  ELSE IF b.poisoned THEN b ELSE [b EXCEPT !.bytes = Append(@, byte)]
Discard(b) == [b EXCEPT !.bytes = <<>>, !.poisoned = FALSE]
InState(b, s) == [b EXCEPT !.state = s]
IsFinal(byte) == byte \in {"A", "~"}

Csi(b, byte) ==
  IF ~IsFinal(byte) THEN [b EXCEPT !.csi = Append(@, byte)]
  ELSE LET done == [b EXCEPT !.state = "text", !.csi = <<>>]
       IN CASE byte = "~" /\ b.csi = <<"200">> -> [done EXCEPT !.paste = TRUE]
            [] byte = "~" /\ b.csi = <<"201">> -> [done EXCEPT !.paste = FALSE]
            [] OTHER -> Discard(done)

Esc(b, byte) ==
  CASE byte = "cr" -> PushByte(InState(b, "text"), Newline)
    [] byte = "[" -> [b EXCEPT !.state = "csi", !.csi = <<>>]
    [] byte = "O" -> InState(b, "ss3")
    [] OTHER -> Discard(InState(b, "text"))

\* A line that is blank, or that did not fit, is not recorded.
Submit(b) ==
  [Discard(b) EXCEPT !.submitted = IF b.poisoned \/ IsBlank(b.bytes) THEN NoLine ELSE b.bytes]

Text(b, byte) ==
  CASE byte = "esc" -> InState(b, "esc")
    [] byte = "cr" -> IF b.paste THEN PushByte(b, Newline) ELSE Submit(b)
    [] byte = "bs" -> IF b.bytes = <<>> THEN b ELSE [b EXCEPT !.bytes = Front(@)]
    [] byte = "ctrl" -> Discard(b)
    [] OTHER -> PushByte(b, byte)

Feed(b, byte) ==
  CASE b.state = "esc" -> Esc(b, byte)
    [] b.state = "csi" -> Csi(b, byte)
    [] b.state = "ss3" -> Discard(InState(b, "text"))
    [] OTHER -> Text(b, byte)

Fed(b, bytes) ==
  LET after[n \in 0..Len(bytes)] == IF n = 0 THEN b ELSE Feed(after[n - 1], bytes[n])
  IN after[Len(bytes)]

-----------------------------------------------------------------------------
(* The terminal: the bytes of a key, and what the editor makes of it. *)

Bytes(key) ==
  CASE key = "enter" -> <<"cr">>
    [] key = "erase" -> <<"bs">>
    [] key = "kill" -> <<"ctrl">>
    [] key = "newline" -> <<"esc", "cr">>
    [] key = "left" -> <<"esc", "[", "A">>
    [] key = "recall" -> <<"esc", "O", "A">>
    [] key = "meta" -> <<"esc", "A">>
    [] key = "paste" -> <<"esc", "[", "200", "~">>
    [] key = "pasted" -> <<"esc", "[", "201", "~">>
    [] OTHER -> <<key>>

Insert(char) == edited' = [edited EXCEPT !.before = Append(@, char)]

\* A key that is not the end of a line.
Edit(key) ==
  /\ CASE key \in Letters -> Insert(key)
       [] key = "newline" \/ (key = "enter" /\ pasting) -> Insert(Newline)
       [] key = "erase" /\ edited.before # <<>> -> edited' = [edited EXCEPT !.before = Front(@)]
       [] key = "left" /\ edited.before # <<>> ->
            edited' = [before |-> Front(edited.before), behind |-> <<Last(edited.before)>> \o edited.behind]
       [] key = "recall" -> edited' \in {edited} \union {[before |-> <<l>>, behind |-> <<>>] : l \in Letters}
       [] key = "kill" -> edited' = [edited EXCEPT !.before = <<>>]
       [] key = "meta" -> edited' \in {edited, EmptyLine}
       [] OTHER -> UNCHANGED edited
  /\ pasting' = (key = "paste" \/ (pasting /\ key # "pasted"))
  \* A line that a kill emptied is begun anew.
  /\ LET anew == key = "kill" /\ edited' = EmptyLine
     IN /\ plain' = (anew \/ (plain /\ key \notin {"left", "recall", "kill", "meta"}))
        /\ long' = (~anew /\ (long \/ Len(edited'.before) + Len(edited'.behind) > LineMax))
  /\ UNCHANGED taken

Enter(recorded) ==
  /\ edited' = EmptyLine /\ plain' = TRUE /\ long' = FALSE
  /\ taken' = [text |-> edited.before \o edited.behind, recorded |-> recorded, plain |-> plain,
              long |-> long]
  /\ UNCHANGED pasting

\* The same bytes go to the session and to the buffer.  In a paste there are no keys.
Press(key) ==
  /\ presses < MaxPresses /\ presses' = presses + 1
  /\ IF pasting THEN key \in Letters \union {"enter", "pasted"} ELSE key # "pasted"
  /\ LET b == Fed([buffer EXCEPT !.submitted = NoLine], Bytes(key))
     IN /\ buffer' = [b EXCEPT !.submitted = NoLine]
        /\ IF key = "enter" /\ ~pasting THEN Enter(b.submitted) ELSE Edit(key)

ClNext == \E key \in KeyNames : Press(key)

ClSpec == ClStart /\ [][ClNext]_clVars

-----------------------------------------------------------------------------
(* What is recorded. *)

\* Of a line that was only typed, erased and pasted the record is the line, or there is
\* none because it is blank or did not fit: whatever the lines before it were, and
\* whatever was begun and killed before it (ConsoleLineBuffer.feed).
PlainLinesRecorded ==
  taken.plain => taken.recorded = IF taken.long \/ IsBlank(taken.text) THEN NoLine ELSE taken.text
===============================================================================
