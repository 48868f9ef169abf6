----------------------------- MODULE JsConsole -----------------------------
(***************************************************************************)
(* The terminal console (js_console.c): a thread reads characters from the *)
(* UART and edits one line, with the lines entered before in a ring.  What *)
(* it echoes is followed on a terminal: a line of cells and a column,      *)
(* counted from the end of the prompt.  The bell is left out.              *)
(*                                                                         *)
(* The newline handler is console_do_newline_without_command_repeat, the   *)
(* only value newline_handling_func ever has, so the else branch of        *)
(* console_do_enter (repeat the last command) is never reached.            *)
(***************************************************************************)
EXTENDS Integers, Sequences, SequencesExt

CONSTANTS
    Typed,         \* the printable characters typed outside an escape
    Delimiters,    \* console_delimit_string
    LineLen,       \* console_line_len, 85 in terminal_console.c
    HistoryLen     \* history_length, 10 in terminal_console.c

Space == " "
Controls == {"LF", "CR", "ESC", "BS", "^P", "^N", "^B", "^F", "^A", "^E",
             "^D", "other"}
(* Within an escape: "[" stands for every character that is skipped, as    *)
(* are O, the semicolon and the other digits.                              *)
Digits == {"1", "3", "4"}
Params == {"["} \cup Digits
EscKeys == Params \cup {"A", "B", "C", "D", "F", "H", "~", "other"}

ASSUME ConsoleAssumption ==
    /\ LineLen \in Nat \ {0} /\ HistoryLen \in Nat
    /\ Typed \cap Controls = {} /\ Delimiters \subseteq Typed

VARIABLES
    buffer,                \* console_buffer, up to its NUL
    cursor,                \* console_cursor_position
    current_line,          \* console_current_line: 0, or a line of history
    term,                  \* the terminal: [cells, col]
    history, num_lines, newest_line,
    in_esc,                \* console_in_esc_seq
    esc_last,              \* console_esc_seq_last_char, as far as ~ cares
    quit, thread,          \* the thread: "running" or "ended"
    deinit                 \* console_deinit: "no", "waiting", "failed", "done"

lineVars == <<buffer, cursor, current_line, term>>
historyVars == <<history, num_lines, newest_line>>
escVars == <<in_esc, esc_last>>
threadVars == <<quit, thread, deinit>>
vars == <<lineVars, historyVars, escVars, threadVars>>

(* console_init *)
Init ==
    /\ buffer = <<>> /\ cursor = 0 /\ current_line = 0
    /\ term = [cells |-> <<>>, col |-> 0]
    /\ history = [i \in 0..(HistoryLen - 1) |-> <<>>]
    /\ num_lines = 0 /\ newest_line = 0
    /\ in_esc = FALSE /\ esc_last = "other"
    /\ quit = FALSE /\ thread = "running" /\ deinit = "no"

-----------------------------------------------------------------------------
(* What the terminal does with what it is sent. *)

(* Characters overwrite the cells from the column on. *)
Show(t, s) ==
    [cells |-> SubSeq(t.cells, 1, t.col) \o s
                 \o SubSeq(t.cells, t.col + Len(s) + 1, Len(t.cells)),
     col   |-> t.col + Len(s)]
Back(t, n) == [t EXCEPT !.col = @ - n]         \* n times \b
ToPrompt(t) == [t EXCEPT !.col = 0]            \* \r and the prompt
NewLine == [cells |-> <<>>, col |-> 0]         \* \r\n and the prompt
Spaces(n) == [i \in 1..n |-> Space]
From(s, i) == SubSeq(s, i + 1, Len(s))         \* &s[i]

-----------------------------------------------------------------------------
(* The history *)

HistoryLoadLine(line) ==
    IF line >= num_lines THEN <<>>
    ELSE history[(newest_line + HistoryLen - line) % HistoryLen]

HistoryStoreLine(s) ==
    IF HistoryLen > 0
    THEN LET at == (newest_line + 1) % HistoryLen IN
         /\ newest_line' = at
         /\ history' = [history EXCEPT ![at] = s]
         /\ num_lines' = IF num_lines < HistoryLen THEN num_lines + 1
                                                   ELSE num_lines
    ELSE UNCHANGED historyVars

-----------------------------------------------------------------------------
(* Editing the line *)

Bell == UNCHANGED lineVars

(* Mutant: the rest of a longer line stays on the screen. *)
LoadLineOver(n) ==
    LET new == IF n > 0 THEN HistoryLoadLine(n - 1) ELSE <<>> IN
    /\ buffer' = new /\ cursor' = Len(new) /\ current_line' = n
    /\ term' = Show(ToPrompt(term), new)

LoadLine(n) ==
    LET new == IF n > 0 THEN HistoryLoadLine(n - 1) ELSE <<>>
        rest == IF Len(buffer) > Len(new) THEN Len(buffer) - Len(new) ELSE 0
    IN /\ buffer' = new /\ cursor' = Len(new) /\ current_line' = n
       /\ term' = Back(Show(ToPrompt(term), new \o Spaces(rest)), rest)

InsertChar(c) ==
    LET new == InsertAt(buffer, cursor + 1, c)
        shown == Show(term, From(new, cursor))
    IN /\ buffer' = new /\ cursor' = cursor + 1 /\ current_line' = 0
       /\ term' = Back(shown, Len(new) - (cursor + 1))

(* Of the character after position at, where the terminal t stands. *)
RemoveChar(at, t) ==
    LET new == RemoveAt(buffer, at + 1)
        shown == Back(Show(t, From(new, at) \o <<Space>>), 1)
    IN /\ buffer' = new /\ cursor' = at /\ current_line' = 0
       /\ term' = Back(shown, Len(new) - at)

MoveTo(at, t) ==
    cursor' = at /\ term' = t /\ UNCHANGED <<buffer, current_line>>

DoHome == MoveTo(0, ToPrompt(term))
DoEnd == MoveTo(Len(buffer), Show(term, From(buffer, cursor)))
DoUp == IF current_line < num_lines THEN LoadLine(current_line + 1) ELSE Bell
DoDown == IF current_line > 0 THEN LoadLine(current_line - 1) ELSE Bell
DoLeft == IF cursor > 0 THEN MoveTo(cursor - 1, Back(term, 1)) ELSE Bell
DoRight == IF cursor < Len(buffer)
           THEN MoveTo(cursor + 1, Show(term, <<buffer[cursor + 1]>>))
           ELSE Bell
DoDelete == IF cursor < Len(buffer) THEN RemoveChar(cursor, term) ELSE Bell
DoBackspace == IF cursor > 0 THEN RemoveChar(cursor - 1, Back(term, 1))
                             ELSE Bell

(* Mutant: a line of delimiters is stored too. *)
DoEnterAny ==
    /\ HistoryStoreLine(buffer)
    /\ buffer' = <<>> /\ cursor' = 0 /\ current_line' = 0 /\ term' = NewLine

(* A line that is not just delimiters is stored and its command called;    *)
(* the command leaves the terminal at the start of a line.                 *)
DoEnter ==
    /\ IF ToSet(buffer) \subseteq Delimiters THEN UNCHANGED historyVars
                                             ELSE HistoryStoreLine(buffer)
    /\ buffer' = <<>> /\ cursor' = 0 /\ current_line' = 0 /\ term' = NewLine

DoNewline ==
    IF buffer # <<>> THEN DoEnter
    ELSE /\ buffer' = <<>> /\ cursor' = 0 /\ term' = NewLine
         /\ UNCHANGED <<current_line, historyVars>>

-----------------------------------------------------------------------------
(* console_thread_func and console_process_char: a character arrives. *)

Receive == thread = "running" /\ UNCHANGED threadVars
Plain == Receive /\ ~in_esc /\ UNCHANGED <<escVars, historyVars>>

(* Mutant: the buffer is filled to its last byte. *)
TypeCharFull(c) ==
    /\ Plain
    /\ IF Len(buffer) < LineLen THEN InsertChar(c) ELSE Bell

TypeChar(c) ==
    /\ Plain
    /\ IF Len(buffer) + 1 < LineLen THEN InsertChar(c) ELSE Bell

Control(c) ==
    /\ Plain
    /\ \/ c \in {"LF", "other"} /\ Bell
       \/ c = "BS" /\ DoBackspace
       \/ c = "^P" /\ DoUp
       \/ c = "^N" /\ DoDown
       \/ c = "^B" /\ DoLeft
       \/ c = "^F" /\ DoRight
       \/ c = "^A" /\ DoHome
       \/ c = "^E" /\ DoEnd
       \/ c = "^D" /\ DoDelete

Enter == Receive /\ ~in_esc /\ DoNewline /\ UNCHANGED escVars

Escape ==
    /\ Receive /\ ~in_esc
    /\ in_esc' = TRUE
    /\ UNCHANGED <<esc_last, lineVars, historyVars>>

(* Mutant: only a digit is remembered. *)
EscLastDigit(c) ==
    in_esc' = (c \in Params) /\ esc_last' = IF c \in Digits THEN c
                                                            ELSE esc_last

(* The last character of an escape tells what ~ means. *)
EscLast(c) ==
    in_esc' = (c \in Params) /\ esc_last' = IF c \in Digits THEN c
                                                            ELSE "other"

(* console_process_esc_seq *)
EscSeq(c) ==
    /\ Receive /\ in_esc
    /\ EscLast(c)
    /\ \/ c = "A" /\ DoUp
       \/ c = "B" /\ DoDown
       \/ c = "C" /\ DoRight
       \/ c = "D" /\ DoLeft
       \/ c = "F" /\ DoEnd
       \/ c = "H" /\ DoHome
       \/ c = "~" /\ CASE esc_last = "1" -> DoHome
                       [] esc_last = "3" -> DoDelete
                       [] esc_last = "4" -> DoEnd
                       [] OTHER -> Bell
       \/ c \in Params \cup {"other"} /\ Bell
    /\ UNCHANGED historyVars

(* No character for a second: only then does the thread look at quit. *)
ReceiveTimeout ==
    /\ thread = "running" /\ quit
    /\ thread' = "ended"
    /\ UNCHANGED <<lineVars, historyVars, escVars, quit, deinit>>

-----------------------------------------------------------------------------
(* console_deinit, by the application's thread. *)

Deinit ==
    /\ deinit \in {"no", "failed"}
    /\ quit' = TRUE /\ deinit' = "waiting"
    /\ UNCHANGED <<lineVars, historyVars, escVars, thread>>

(* Mutant: the thread is deleted whether or not the semaphore was set. *)
DeinitDoneAnyway ==
    /\ deinit = "waiting" /\ deinit' = "done"
    /\ UNCHANGED <<lineVars, historyVars, escVars, quit, thread>>

(* The semaphore that the thread sets as it ends. *)
DeinitDone ==
    /\ deinit = "waiting" /\ thread = "ended"
    /\ deinit' = "done"
    /\ UNCHANGED <<lineVars, historyVars, escVars, quit, thread>>

DeinitTimesOut ==
    /\ deinit = "waiting" /\ thread # "ended"
    /\ deinit' = "failed"
    /\ UNCHANGED <<lineVars, historyVars, escVars, quit, thread>>

Next ==
    \/ \E c \in Typed : TypeChar(c)
    \/ \E c \in Controls : Control(c)
    \/ \E c \in EscKeys : EscSeq(c)
    \/ Enter \/ Escape \/ ReceiveTimeout
    \/ Deinit \/ DeinitDone \/ DeinitTimesOut

Spec == Init /\ [][Next]_vars
-----------------------------------------------------------------------------
(* Properties *)

TypeOK ==
    /\ buffer \in Seq(Typed) /\ Len(buffer) < LineLen
    /\ cursor \in 0..Len(buffer) /\ current_line \in 0..HistoryLen
    /\ term.cells \in Seq(Typed \cup {Space})
    /\ term.col \in 0..Len(term.cells)
    /\ num_lines \in 0..HistoryLen
    /\ newest_line \in 0..HistoryLen
    /\ history \in [0..(HistoryLen - 1) -> Seq(Typed)]
    /\ in_esc \in BOOLEAN /\ esc_last \in Digits \cup {"other"}
    /\ quit \in BOOLEAN /\ thread \in {"running", "ended"}
    /\ deinit \in {"no", "waiting", "failed", "done"}

(* The screen shows the line that a newline will run, with the cursor in   *)
(* its place, after whatever mix of edits and recalled lines: the echo of  *)
(* insert_char, remove_char and load_line agrees with the buffer.          *)
ScreenShowsLine ==
    /\ term.col = cursor
    /\ IsPrefix(buffer, term.cells)
    /\ ToSet(From(term.cells, Len(buffer))) \subseteq {Space}

(* A digit left over from an earlier escape sequence never gives a later   *)
(* one its meaning: each starts without parameters (console_process_char). *)
NoStaleParam == ~in_esc => esc_last = "other"

(* Once console_deinit has returned success, no character changes the line *)
(* or the history any more: its memory may be reused.                      *)
QuietAfterDeinit ==
    [][deinit = "done" => UNCHANGED <<lineVars, historyVars, escVars>>]_vars

(* The console is a line editor whose past is the ring read backwards from *)
(* the newest line.                                                        *)
Past == [i \in 1..num_lines |-> HistoryLoadLine(i - 1)]
Editor == INSTANCE LineEditor
            WITH text <- buffer, past <- Past, recalled <- current_line,
                 MaxText <- LineLen - 1, MaxPast <- HistoryLen
ImplementsEditor == Editor!Spec
=============================================================================
