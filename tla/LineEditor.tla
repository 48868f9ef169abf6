----------------------------- MODULE LineEditor -----------------------------
(***************************************************************************)
(* What a line editor with a history promises: a text with a cursor in it, *)
(* and the lines entered before, the latest first, to be recalled one step *)
(* at a time.  The console (js_console.c) is shown to implement it.        *)
(***************************************************************************)
EXTENDS Integers, Sequences, SequencesExt

CONSTANTS
    Typed,         \* the characters of a text
    Delimiters,    \* a text of these alone is no command
    MaxText,       \* characters in a text
    MaxPast        \* lines remembered

VARIABLES text, cursor, past, recalled

editorVars == <<text, cursor, past, recalled>>

Init == text = <<>> /\ cursor = 0 /\ past = <<>> /\ recalled = 0

(* A text that has been changed is a new line, not the one recalled. *)
Change(new, at) ==
    text' = new /\ cursor' = at /\ recalled' = 0 /\ UNCHANGED past

Insert ==
    /\ Len(text) < MaxText
    /\ \E c \in Typed : Change(InsertAt(text, cursor + 1, c), cursor + 1)

(* The character before the cursor or the one after it. *)
Delete ==
    \E i \in {cursor, cursor + 1} \cap DOMAIN text :
        Change(RemoveAt(text, i), i - 1)

Move ==
    /\ cursor' \in {cursor - 1, cursor + 1, 0, Len(text)} \cap 0..Len(text)
    /\ UNCHANGED <<text, past, recalled>>

(* To an older line, or back to a newer one and at last to an empty text.  *)
Recall ==
    /\ recalled' \in {recalled - 1, recalled + 1} \cap 0..Len(past)
    /\ text' = IF recalled' = 0 THEN <<>> ELSE past[recalled']
    /\ cursor' = Len(text')
    /\ UNCHANGED past

Enter ==
    /\ past' = IF ToSet(text) \subseteq Delimiters THEN past
               ELSE SubSeq(<<text>> \o past, 1,
                           IF Len(past) < MaxPast THEN Len(past) + 1
                                                  ELSE MaxPast)
    /\ text' = <<>> /\ cursor' = 0 /\ recalled' = 0

Next == Insert \/ Delete \/ Move \/ Recall \/ Enter
Spec == Init /\ [][Next]_editorVars
=============================================================================
