------------------------------ MODULE Terminal ------------------------------
(***************************************************************************)
(* A shell at the keyboard and the screen: get_line and put_char_color of  *)
(* src/src/user/io.c, between the system calls of which keys may be typed  *)
(* at any moment.  One step is one system call, or one turn of get_line's  *)
(* loop over the keys it polled.                                           *)
(*                                                                         *)
(* The shell prints (prompts and output of commands) any characters before *)
(* it reads the next line.  One shell has the keyboard: the other programs *)
(* of the repository never poll it and do not move the cursor.             *)
(*                                                                         *)
(* Where the code writes past one of its arrays the shell goes to          *)
(* "overrun", of which nothing is said.                                    *)
(***************************************************************************)
EXTENDS Keyboard

CONSTANTS PAGE_BREAK_ROW,   \* the row put_char_color stops at (22)
          INFO_LENGTH,      \* characters of its message before the newline (26)
          LINE_SIZE,        \* size of get_line's buf (4000)
          MaxTyped,         \* bound: keys of one line
          MaxCursor,        \* bound: how far keys at a page break move the cursor
          Starts            \* bound: where a line may begin

\* The rows below the page break have room for a full command buffer.
ASSUME TerminalAssumption ==
    /\ PAGE_BREAK_ROW \in 1 .. (HEIGHT - 1)
    /\ MAX_COMMAND_LENGTH <= (HEIGHT - PAGE_BREAK_ROW) * WIDTH
    /\ INFO_LENGTH \in Nat
    /\ LINE_SIZE \in Nat /\ MaxTyped \in Nat
    /\ MaxCursor \in Nat /\ Starts \subseteq Nat
    /\ MaxTyped < LINE_SIZE

Index == 0 .. (LINE_SIZE - 1)

VARIABLES pc,               \* the shell's next step
          idx,              \* put_char_color's idx
          buf,              \* get_line's buf
          length_buf, t,    \* get_line's length and insertion point
          temp, i,          \* get_line's poll buffer, up to its zeros, and loop
          start,            \* CURSOR_X and CURSOR_Y
          drawn,            \* history: where the line was last drawn, and what
          typed, orderly    \* history: the keys of this line, if in order

lineVars == <<buf, length_buf, t, temp, i, start, drawn, typed, orderly>>
vars == <<framebuffer_state, keyboardVars, pc, idx, lineVars>>

Blank == [j \in Index |-> NUL]

NotDrawn == [at |-> 0, text |-> <<>>]

\* The bounds of length_buf and t are those of get_line as far as it is modelled,
\* up to "overrun"; those of command, cursor_at and temp are the driver's.
TypeOK ==
    /\ KeyboardTypeOK
    /\ framebuffer_state \in Nat
    /\ pc \in {"run", "info", "enter", "clear", "home", "put",
               "poll", "edit", "redraw", "draw", "move", "returned",
               "overrun"}
    /\ idx \in 0 .. INFO_LENGTH
    /\ buf \in [Index -> Char \cup {NUL}]
    /\ length_buf \in 0 .. LINE_SIZE
    /\ t \in 0 .. LINE_SIZE
    /\ temp \in Seq(Char \cup {NUL}) /\ Len(temp) <= MAX_COMMAND_LENGTH
    /\ i \in 1 .. (Len(temp) + 1)
    /\ start \in Nat
    /\ drawn \in [at : Nat, text : Seq(Char)]
    /\ typed \in Seq(Char)
    /\ orderly \in BOOLEAN

Init ==
    /\ framebuffer_state = 0
    /\ KeyboardInit
    /\ pc = "run"
    /\ idx = 0
    /\ buf = Blank /\ length_buf = 0 /\ t = 0
    /\ temp = <<>> /\ i = 1
    /\ start = 0 /\ drawn = NotDrawn
    /\ typed = <<>> /\ orderly = TRUE

(***************************************************************************)
(* The keyboard interrupt, between any two steps of the shell.             *)
(***************************************************************************)
KeyboardInterrupt ==
    /\ \/ \E key \in Keys :
            /\ Len(typed) + Len(pressed) < MaxTyped \* bounds
            /\ pc = "enter" => framebuffer_state < MaxCursor
            /\ KeyDown(key)
       \/ \E down \in BOOLEAN : ShiftDownOrUp(down)
       \/ CapsLock
    /\ UNCHANGED <<pc, idx, lineVars>>

(***************************************************************************)
(* put_char_color.                                                         *)
(***************************************************************************)
GoTo(step) == pc' = step

\* The shell has something to print; call 20 tells it where the cursor is.
AskCursor ==
    /\ pc = "run"
    /\ GoTo(IF Row(framebuffer_state) >= PAGE_BREAK_ROW THEN "info" ELSE "put")
    /\ UNCHANGED <<framebuffer_state, keyboardVars, idx, lineVars>>

\* Call 5 for each character of "Press enter to continue...\n".
PutInfo ==
    /\ pc = "info"
    /\ IF idx < INFO_LENGTH
       THEN kernel_put_char(Glyph) /\ idx' = idx + 1 /\ GoTo("info")
       ELSE kernel_put_char(Newline) /\ idx' = 0 /\ GoTo("enter")
    /\ UNCHANGED <<keyboardVars, lineVars>>

\* Call 6 into the single character key.  More keys than one are copied over
\* what lies behind it on the stack, which may do harm or not.
PollForEnter ==
    /\ pc = "enter"
    /\ command # <<>>
    /\ \/ /\ GoTo(IF command[1] = Newline THEN "clear" ELSE "enter")
          /\ UNCHANGED <<typed, orderly>>
       \/ /\ Len(command) > 1
          /\ GoTo("overrun")
          /\ typed' = <<>> /\ orderly' = FALSE
    /\ get_command_buffer
    /\ UNCHANGED <<framebuffer_state, idx, buf, length_buf, t, temp, i,
                   start, drawn>>

\* Call 8.
ClearScreen ==
    /\ pc = "clear"
    /\ GoTo("home")
    /\ UNCHANGED <<framebuffer_state, keyboardVars, idx, lineVars>>

\* Call 9; a mutant forgets it.
CursorHome_Forgotten ==
    /\ pc = "home"
    /\ GoTo("put")
    /\ UNCHANGED <<framebuffer_state, keyboardVars, idx, lineVars>>

CursorHome ==
    /\ pc = "home"
    /\ framebuffer_set_cursor(0)
    /\ GoTo("put")
    /\ UNCHANGED <<keyboardVars, idx, lineVars>>

\* Call 5 for the character itself.
PutChar ==
    /\ pc = "put"
    /\ \E c \in {Glyph, Newline} : kernel_put_char(c)
    /\ GoTo("run")
    /\ UNCHANGED <<keyboardVars, idx, lineVars>>

(***************************************************************************)
(* get_line.                                                               *)
(***************************************************************************)

\* Its buffers are clear, and call 20 tells where the line begins.
BeginLine ==
    /\ pc = "run"
    /\ framebuffer_state \in Starts      \* bound
    /\ start' = framebuffer_state
    /\ drawn' = [at |-> framebuffer_state, text |-> <<>>]
    /\ GoTo("poll")
    /\ UNCHANGED <<framebuffer_state, keyboardVars, idx, buf, length_buf, t, temp,
                   i, typed, orderly>>

\* What temp holds after a poll: the new keys over the old ones, of which only
\* the first was erased.
Overlay == command \o SubSeq(temp, Len(command) + 1, Len(temp))

\* Call 6.  An empty buffer leaves everything as it is.
PollKeys ==
    /\ pc = "poll"
    /\ command # <<>>
    /\ temp' = Overlay
    /\ i' = 1
    /\ orderly' = (orderly /\ InOrder(pressed) /\ Len(temp) <= Len(command))
    /\ typed' = IF orderly' THEN typed \o pressed ELSE <<>>
    /\ get_command_buffer
    /\ GoTo("edit")
    /\ UNCHANGED <<framebuffer_state, idx, buf, length_buf, t, start, drawn>>

\* The characters from t on make room for c; a mutant writes over the first.
TypeCharacter_Overwrites(c) ==
    /\ t < LINE_SIZE /\ length_buf < LINE_SIZE
    /\ buf' = [buf EXCEPT ![t] = c]
    /\ length_buf' = length_buf + 1
    /\ t' = t + 1

TypeCharacter(c) ==
    /\ t < LINE_SIZE /\ length_buf < LINE_SIZE
    /\ buf' = [j \in Index |-> CASE j = t -> c
                                 [] t < j /\ j <= length_buf -> buf[j - 1]
                                 [] OTHER -> buf[j]]
    /\ length_buf' = length_buf + 1
    /\ t' = t + 1

EraseCharacter ==
    IF t = 0 THEN UNCHANGED <<buf, length_buf, t>>
    ELSE /\ length_buf > 0
         /\ buf' = [j \in Index |->
                      CASE j = length_buf - 1 -> NUL
                        [] t - 1 <= j /\ j < length_buf - 1 -> buf[j + 1]
                        [] OTHER -> buf[j]]
         /\ length_buf' = length_buf - 1
         /\ t' = t - 1

MoveLeft ==
    /\ t' = IF t > 0 THEN t - 1 ELSE t
    /\ UNCHANGED <<buf, length_buf>>

MoveRight ==
    /\ t' = IF t < LINE_SIZE /\ buf[t] # NUL THEN t + 1 ELSE t
    /\ UNCHANGED <<buf, length_buf>>

EnterLine ==
    /\ length_buf < LINE_SIZE
    /\ buf' = [buf EXCEPT ![length_buf] = Newline]
    /\ UNCHANGED <<length_buf, t>>

Edit(c) ==
    \/ c = Backspace /\ EraseCharacter
    \/ c = LEFT_ARROW /\ MoveLeft
    \/ c = RIGHT_ARROW /\ MoveRight
    \/ c = Newline /\ EnterLine
    \/ c \notin {Backspace, LEFT_ARROW, RIGHT_ARROW, Newline} /\ TypeCharacter(c)

\* The next key of temp does not fit in buf, or length_buf wraps below zero.
\* get_line looks for neither: it goes on in the shell's stack of directories,
\* which lies behind buf, where the model ends.
DoesNotFit(c) ==
    \/ c = Backspace /\ t > 0 /\ length_buf = 0
    \/ c = Newline /\ length_buf = LINE_SIZE
    \/ /\ c \notin {Backspace, LEFT_ARROW, RIGHT_ARROW, Newline}
       /\ t = LINE_SIZE \/ length_buf = LINE_SIZE

EditKey ==
    /\ pc = "edit"
    /\ i <= Len(temp)
    /\ \/ Edit(temp[i]) /\ i' = i + 1 /\ GoTo("edit")
       \/ DoesNotFit(temp[i]) /\ GoTo("overrun") /\ UNCHANGED <<buf, length_buf, t, i>>
    /\ UNCHANGED <<framebuffer_state, keyboardVars, idx, temp, start, drawn,
                   typed, orderly>>

KeysUsedUp ==
    /\ pc = "edit"
    /\ i > Len(temp)
    /\ GoTo("redraw")
    /\ i' = 1
    /\ UNCHANGED <<framebuffer_state, keyboardVars, idx, buf, length_buf, t, temp,
                   start, drawn, typed, orderly>>

\* Call 9 to where the line begins.
CursorToStart ==
    /\ pc = "redraw"
    /\ framebuffer_set_cursor(start)
    /\ GoTo("draw")
    /\ UNCHANGED <<keyboardVars, idx, lineVars>>

\* The characters of buf before its first zero.
TextLength == CHOOSE n \in Index : buf[n] = NUL /\ \A j \in 0 .. (n - 1) : buf[j] # NUL
Text == [j \in 1 .. TextLength |-> buf[j - 1]]
Terminated == \E n \in Index : buf[n] = NUL

\* Call 19; without a zero it reads on behind buf.  It has no break and goes on as
\* call 20 does with the address 0, where the cursor overwrites the shell's first
\* instructions, long executed.  Those bytes are left out, and so is the blank it
\* puts behind the line.
DrawLine ==
    /\ pc = "draw"
    /\ IF Terminated
       THEN /\ drawn' = [at |-> framebuffer_state, text |-> Text]
            /\ framebuffer_state' = After(framebuffer_state, Text)
            /\ GoTo("move")
       ELSE GoTo("overrun") /\ UNCHANGED <<drawn, framebuffer_state>>
    /\ UNCHANGED <<keyboardVars, idx, buf, length_buf, t, temp, i, start,
                   typed, orderly>>

\* The first byte of temp is erased, and the line is complete when it has a
\* newline, which is cut off.
FinishTurn ==
    /\ temp' = [temp EXCEPT ![1] = NUL]
    /\ IF \E n \in 1 .. TextLength : Text[n] = Newline
       THEN /\ buf' = [buf EXCEPT ![SelectInSeq(Text, LAMBDA c : c = Newline) - 1] = NUL]
            /\ GoTo("returned")
       ELSE buf' = buf /\ GoTo("poll")
    /\ UNCHANGED <<keyboardVars, idx, length_buf, t, i, start, drawn,
                   typed, orderly>>

\* Call 9 to the insertion point; a mutant puts the cursor behind the text.
CursorToInsertion_AtEnd ==
    pc = "move" /\ framebuffer_set_cursor(start + length_buf) /\ FinishTurn

CursorToInsertion ==
    pc = "move" /\ framebuffer_set_cursor(start + t) /\ FinishTurn

\* The shell carries out the command and clears its buffer for the next line.
TakeLine ==
    /\ pc = "returned"
    /\ buf' = Blank /\ length_buf' = 0 /\ t' = 0
    /\ temp' = <<>> /\ i' = 1
    /\ start' = 0 /\ drawn' = NotDrawn
    /\ typed' = <<>> /\ orderly' = TRUE
    /\ GoTo("run")
    /\ UNCHANGED <<framebuffer_state, keyboardVars, idx>>

Shell ==
    \/ AskCursor \/ PutInfo \/ PollForEnter \/ ClearScreen \/ CursorHome \/ PutChar
    \/ BeginLine \/ PollKeys \/ EditKey \/ KeysUsedUp
    \/ CursorToStart \/ DrawLine \/ CursorToInsertion \/ TakeLine

Next == KeyboardInterrupt \/ Shell

Spec == Init /\ [][Next]_vars

(***************************************************************************)
(* Properties.                                                             *)
(***************************************************************************)

\* An editor by itself: the characters before and after the insertion point.
Type(line, c) ==
    CASE c = Newline -> line
      [] c = Backspace ->
            IF line.before = <<>> THEN line
            ELSE [line EXCEPT !.before = Front(@)]
      [] c = LEFT_ARROW ->
            IF line.before = <<>> THEN line
            ELSE [before |-> Front(line.before),
                  after |-> <<Last(line.before)>> \o line.after]
      [] c = RIGHT_ARROW ->
            IF line.after = <<>> THEN line
            ELSE [before |-> Append(line.before, Head(line.after)),
                  after |-> Tail(line.after)]
      [] OTHER -> [line EXCEPT !.before = Append(@, c)]

TypedLine == FoldLeft(Type, [before |-> <<>>, after |-> <<>>], typed)
Entered == typed # <<>> /\ Last(typed) = Newline

\* get_line's line, through its moves of single bytes in buf, is what an editor
\* makes of the keys in the order the user typed them, and the shell gets it
\* after Enter and not before; provided every poll found its keys in order and
\* was no shorter than the ones before it, so that nothing stale was left in temp.
LineIsWhatWasTyped ==
    orderly /\ pc # "edit" =>
        LET line == TypedLine.before \o TypedLine.after
        IN  /\ pc # "overrun"
            /\ length_buf = Len(line) /\ t = Len(TypedLine.before)
            /\ \A j \in 1 .. Len(line) : buf[j - 1] = line[j]
            /\ buf[Len(line)] =
                 IF Entered /\ pc \in {"redraw", "draw", "move"} THEN Newline ELSE NUL
            /\ pc = "poll" => ~Entered
            /\ pc = "returned" => Entered

\* When get_line has nothing to read, the line stands on the screen where it
\* began and the cursor is at the insertion point, whatever keys moved the cursor
\* between the calls that redrew the line.
ScreenFollowsLine ==
    pc = "poll" /\ command = <<>> =>
        /\ framebuffer_state = start + t
        /\ drawn = [at |-> start, text |-> Text]

\* A character that put_char_color prints lands on the screen, although keys
\* typed after it looked move the cursor: a full buffer stops them in time.
PutStaysOnScreen == pc = "put" => Row(framebuffer_state) < HEIGHT
=============================================================================
