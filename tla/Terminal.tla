-------------------------------- MODULE Terminal --------------------------------
(***************************************************************************)
(* The way of a key: the keyboard interrupt puts its scan code into the    *)
(* keyboard buffer, the task KEYBOARD takes it out and puts the character  *)
(* into the buffer of the current terminal, and the task TTY takes that    *)
(* out, edits the command line, runs a command or switches terminals       *)
(* (driver/keyboard.c, tty/tty.c).                                         *)
(*                                                                         *)
(* Neither buffer has a lock.  The counters are bytes, and the compiler    *)
(* (no optimisation, Makefile) turns count-- and buf_size++ into a load    *)
(* and a store: these are separate actions, in the order of the machine    *)
(* code.  The keyboard interrupt can fall between any two actions, and the *)
(* clock may switch between the two tasks at any of them.  The histories   *)
(* lost, torn, overrun and raced record where this does harm, so that the  *)
(* properties can say what holds up to there and whatever else happens.    *)
(*                                                                         *)
(* Abstractions.  A scan code is a member of Code; shift, caps lock, the   *)
(* keys that print more than one character, the screen and the contents    *)
(* of the command line are left out.  A command runs for a while and then  *)
(* returns.                                                                *)
(***************************************************************************)
EXTENDS Integers, SequencesExt

CONSTANTS
  BUFFER_SIZE,  \* bytes in the keyboard buffer (1024)
  UINT8,        \* the counters are taken modulo this (256)
  TTY_NUMBER,   \* terminals (3)
  Keys,         \* bound: the scan codes typed
  MaxKeys,      \* bound: how many
  Whole,        \* is a two-byte code taken only when both bytes are there?
  Patient,      \* does the user wait for a command or a switch to finish?
  Preempt       \* may an interrupt fall between a load and its store?

Tty == 0 .. TTY_NUMBER - 1

\* A scan code is named by the character of its keymap entry: a printable
\* one, backspace, return, or -1, -2, ... for the function keys.
A        == 97
BKSP     == 8
ENTER    == 10
Switches == {-(n + 1) : n \in Tty}
Char     == {A, BKSP, ENTER} \cup Switches
NoChar   == 0       \* without effect: a key going up, shift; a zeroed byte
E0       == 224     \* the first byte of a two-byte code
Code     == Char \cup {NoChar, E0}

\* A byte cannot count as far as the keyboard buffer is long.
ASSUME TerminalAssumption ==
  /\ BUFFER_SIZE \in Nat \ {0} /\ UINT8 \in Nat \ {0} /\ TTY_NUMBER \in Nat \ {0}
  /\ UINT8 <= BUFFER_SIZE
  /\ Keys \subseteq Code /\ NoChar \in Keys /\ MaxKeys \in Nat
  /\ Whole \in BOOLEAN /\ Patient \in BOOLEAN /\ Preempt \in BOOLEAN

VARIABLES
  kbuf,         \* keyboard_buffer.buf
  khead,        \* keyboard_buffer.head, as an index
  ktail,        \* keyboard_buffer.tail, as an index
  kcount,       \* keyboard_buffer.count
  kpc,          \* where the task KEYBOARD is
  kreg,         \* its register: the counter it has loaded
  byte1,        \* the code it has fetched
  ktty,         \* the terminal it puts the character into
  current_tty,
  tty_table,    \* [Tty -> [buf_size, point, pos, buf]]
  tpc,          \* where the task TTY is: "poll" or "command"
  typed,        \* history: <<terminal on the screen, code>> from the keyboard
  taken,        \* history: codes taken by KEYBOARD
  shown,        \* history: <<terminal, character>> taken by TTY
  put,          \* history: [Tty -> characters KEYBOARD has put in since the last
                \* flush of the terminal]
  got,          \* history: [Tty -> characters TTY has taken out since then]
  lost,         \* history: interrupts between the load and the store of count--
  torn,         \* history: a second byte was taken when count was 0
  overrun,      \* history: a byte was written over one not yet taken
  raced         \* history: a terminal was flushed between the load and the store of
                \* buf_size++, or a character taken before it was stored

kbVars   == <<kbuf, khead, ktail, kcount>>
taskVars == <<kpc, kreg, byte1, ktty>>
ttyVars  == <<current_tty, tty_table, tpc>>
keyHist  == <<typed, taken, lost, torn, overrun>>
ttyHist  == <<shown, put, got, raced>>
vars     == <<kbVars, taskVars, ttyVars, keyHist, ttyHist>>

Init ==
  /\ kbuf = [i \in 0 .. BUFFER_SIZE - 1 |-> NoChar]
  /\ khead = 0 /\ ktail = 0 /\ kcount = 0
  /\ kpc = "test" /\ kreg = 0 /\ byte1 = NoChar /\ ktty = 0
  /\ current_tty = 0
  /\ tty_table = [n \in Tty |-> [buf_size |-> 0, point |-> 0, pos |-> 0,
                                 buf |-> [i \in 0 .. UINT8 - 1 |-> NoChar]]]
  /\ tpc = "poll"
  /\ typed = <<>> /\ taken = <<>> /\ shown = <<>>
  /\ put = [n \in Tty |-> <<>>] /\ got = [n \in Tty |-> <<>>]
  /\ lost = 0 /\ torn = FALSE /\ overrun = FALSE /\ raced = FALSE

\* KEYBOARD is between a load and the store that depends on it.
Inside == kpc \in {"dec", "dec2", "put", "fill"}

--------------------------------------------------------------------------------
(* keyboard.c                                                              *)

\* The characters among the first k bytes typed, as the terminals should get them.
WantedOf[k \in 0 .. Len(typed)] ==
  IF k = 0 THEN <<>>
  ELSE IF typed[k][2] \in Char THEN Append(WantedOf[k - 1], typed[k]) ELSE WantedOf[k - 1]

Wanted == WantedOf[Len(typed)]

\* Everything that changes what the user sees next has happened.
Settled ==
  /\ tpc = "poll"
  /\ \A k \in (Len(shown) + 1) .. Len(Wanted) : Wanted[k][2] \in {A, BKSP}

\* Mutant: the tail runs past the end of the buffer.
HandlerKeepsGoing(code) ==
  IF kcount < BUFFER_SIZE
  THEN /\ kbuf' = [kbuf EXCEPT ![ktail] = code]
       /\ ktail' = ktail + 1
       /\ kcount' = (kcount + 1) % UINT8
  ELSE UNCHANGED <<kbuf, ktail, kcount>>

\* Mutant: the byte is counted but the tail stays where it is.
HandlerKeepsTail(code) ==
  /\ kbuf' = [kbuf EXCEPT ![ktail] = code]
  /\ kcount' = (kcount + 1) % UINT8
  /\ UNCHANGED ktail

\* keyboard_handler: the test of count against BUFFER_SIZE, then the ring.
Handler(code) ==
  IF kcount < BUFFER_SIZE
  THEN /\ kbuf' = [kbuf EXCEPT ![ktail] = code]
       /\ ktail' = IF ktail + 1 = BUFFER_SIZE THEN 0 ELSE ktail + 1
       /\ kcount' = (kcount + 1) % UINT8
  ELSE UNCHANGED <<kbuf, ktail, kcount>>

\* The keyboard has sent the first byte of an extended code.
SecondDue == typed # <<>> /\ typed[Len(typed)][2] = E0

\* The interrupt of a key.  The second byte of an extended code follows the
\* first.
KeyInterrupt(code) ==
  /\ Len(typed) < MaxKeys
  /\ Preempt \/ ~Inside
  /\ Patient => Settled \/ SecondDue
  /\ code = E0 => Len(typed) + 1 < MaxKeys
  /\ SecondDue => code = NoChar
  /\ Handler(code)
  /\ typed' = Append(typed, <<current_tty, code>>)
  /\ lost' = IF kpc \in {"dec", "dec2"} THEN lost + 1 ELSE lost
  /\ overrun' = (overrun \/ Len(typed) - Len(taken) >= BUFFER_SIZE)
  /\ UNCHANGED <<khead, taskVars, ttyVars, taken, torn, ttyHist>>

\* The byte under head.  Past the buffer it is whatever follows in memory.
Fetched(b) == IF khead < BUFFER_SIZE THEN b = kbuf[khead] ELSE b \in Code

\* keyboard_buffer_read: take a byte if there is one; load count.  The bound
\* on taken only matters once the reader has run past what was typed.
Fetch ==
  /\ kpc = "test"
  /\ kcount > 0
  /\ Whole => ~SecondDue
  /\ Len(taken) <= MaxKeys
  /\ \E b \in Code : Fetched(b) /\ byte1' = b /\ taken' = Append(taken, b)
  /\ khead' = khead + 1
  /\ kreg' = kcount
  /\ kpc' = "dec"
  /\ UNCHANGED <<kbuf, ktail, kcount, ktty, ttyVars, typed, lost, torn, overrun, ttyHist>>

Decrement ==
  /\ kpc = "dec"
  /\ kcount' = (kreg - 1) % UINT8
  /\ kpc' = IF byte1 = E0 THEN "second" ELSE IF byte1 \in Char THEN "ascii" ELSE "test"
  /\ UNCHANGED <<kbuf, khead, ktail, kreg, byte1, ktty, ttyVars, keyHist, ttyHist>>

\* The second byte of a two-byte code is taken, whether it has come or not.
FetchSecond ==
  /\ kpc = "second"
  /\ \E b \in Code : Fetched(b) /\ taken' = Append(taken, b)
  /\ khead' = khead + 1
  /\ kreg' = kcount
  /\ torn' = (torn \/ kcount = 0)
  /\ kpc' = "dec2"
  /\ UNCHANGED <<kbuf, ktail, kcount, byte1, ktty, ttyVars, typed, lost, overrun, ttyHist>>

\* Mutant: the second byte is not taken off the count.
SecondUncounted ==
  /\ kpc = "dec2"
  /\ kpc' = "test"
  /\ UNCHANGED <<kbVars, kreg, byte1, ktty, ttyVars, keyHist, ttyHist>>

DecrementSecond ==
  /\ kpc = "dec2"
  /\ kcount' = (kreg - 1) % UINT8
  /\ kpc' = "test"
  /\ UNCHANGED <<kbuf, khead, ktail, kreg, byte1, ktty, ttyVars, keyHist, ttyHist>>

\* tty_putc(current_tty, c): load buf_size, ...
PutLoad ==
  /\ kpc = "ascii"
  /\ ktty' = current_tty
  /\ kreg' = tty_table[current_tty].buf_size
  /\ kpc' = "put"
  /\ UNCHANGED <<kbVars, byte1, ttyVars, keyHist, ttyHist>>

\* ... store it incremented, ...
PutStore ==
  /\ kpc = "put"
  /\ tty_table' = [tty_table EXCEPT ![ktty].buf_size = (kreg + 1) % UINT8]
  /\ put' = [put EXCEPT ![ktty] = Append(@, byte1)]
  /\ kpc' = "fill"
  /\ UNCHANGED <<kbVars, kreg, byte1, ktty, current_tty, tpc, keyHist, shown, got, raced>>

\* Mutant: the character goes where the counter points after the increment.
PutAfter ==
  /\ kpc = "fill"
  /\ tty_table' = [tty_table EXCEPT ![ktty].buf[tty_table[ktty].buf_size] = byte1]
  /\ kpc' = "test"
  /\ UNCHANGED <<kbVars, kreg, byte1, ktty, current_tty, tpc, keyHist, ttyHist>>

\* ... and only then the character.
PutChar ==
  /\ kpc = "fill"
  /\ tty_table' = [tty_table EXCEPT ![ktty].buf[kreg] = byte1]
  /\ kpc' = "test"
  /\ UNCHANGED <<kbVars, kreg, byte1, ktty, current_tty, tpc, keyHist, ttyHist>>

KeyboardTask == Fetch \/ Decrement \/ FetchSecond \/ DecrementSecond
                \/ PutLoad \/ PutStore \/ PutChar

--------------------------------------------------------------------------------
(* tty.c                                                                   *)

\* tty_print: take a character of the current terminal and act on it.
TtyPrint ==
  LET t == tty_table[current_tty]
      c == t.buf[t.point]
  IN /\ tpc = "poll"
     /\ Preempt \/ ~Inside
     /\ t.point < t.buf_size
     /\ tty_table' = [tty_table EXCEPT
          ![current_tty].point = (t.point + 1) % UINT8,
          ![current_tty].pos = CASE c \in {A, NoChar} -> (t.pos + 1) % UINT8
                                 [] c = BKSP /\ t.pos > 0 -> t.pos - 1
                                 [] OTHER -> t.pos]
     /\ current_tty' = IF c \in Switches THEN -(c + 1) ELSE current_tty
     /\ tpc' = IF c = ENTER THEN "command" ELSE "poll"
     /\ shown' = Append(shown, <<current_tty, c>>)
     /\ got' = [got EXCEPT ![current_tty] = Append(@, c)]
     /\ raced' = (raced \/ (kpc = "fill" /\ ktty = current_tty /\ kreg = t.point))
  /\ Len(shown) <= MaxKeys
  /\ UNCHANGED <<kbVars, taskVars, keyHist, put>>

\* What the histories make of the flush of the current terminal.
Flushed ==
  /\ put' = [put EXCEPT ![current_tty] = <<>>] /\ got' = [got EXCEPT ![current_tty] = <<>>]
  /\ raced' = (raced \/ (kpc = "put" /\ ktty = current_tty))

\* Mutant: the terminal's counter of waiting characters is not reset.
FlushKeepsSize ==
  /\ tpc = "command"
  /\ Preempt \/ ~Inside
  /\ tty_table' = [tty_table EXCEPT ![current_tty].point = 0, ![current_tty].pos = 0]
  /\ tpc' = "poll"
  /\ Flushed
  /\ UNCHANGED <<kbVars, taskVars, current_tty, keyHist, shown>>

\* tty_flush after shell_parse_command has returned.
TtyFlush ==
  /\ tpc = "command"
  /\ Preempt \/ ~Inside
  /\ tty_table' = [tty_table EXCEPT ![current_tty].buf_size = 0, ![current_tty].point = 0,
                                    ![current_tty].pos = 0]
  /\ tpc' = "poll"
  /\ Flushed
  /\ UNCHANGED <<kbVars, taskVars, current_tty, keyHist, shown>>

TtyTask == TtyPrint \/ TtyFlush

Next == (\E code \in Keys : KeyInterrupt(code)) \/ KeyboardTask \/ TtyTask

Spec == Init /\ [][Next]_vars

\* Both tasks are runnable all the time, the scheduler is fair, and the second
\* byte of a code follows the first.
FairSpec == /\ Spec /\ WF_vars(KeyboardTask) /\ WF_vars(TtyTask)
            /\ WF_vars(SecondDue /\ KeyInterrupt(NoChar))
--------------------------------------------------------------------------------
(* Properties                                                              *)

TypeOK ==
  /\ kbuf \in [0 .. BUFFER_SIZE - 1 -> Code]
  /\ khead \in Nat /\ ktail \in 0 .. BUFFER_SIZE - 1 /\ kcount \in 0 .. UINT8 - 1
  /\ kpc \in {"test", "dec", "second", "dec2", "ascii", "put", "fill"}
  /\ kreg \in 0 .. UINT8 - 1 /\ byte1 \in Code /\ ktty \in Tty /\ current_tty \in Tty
  /\ tty_table \in [Tty -> [buf_size : 0 .. UINT8 - 1, point : 0 .. UINT8 - 1,
                            pos : 0 .. UINT8 - 1, buf : [0 .. UINT8 - 1 -> Code]]]
  /\ tpc \in {"poll", "command"}

\* keyboard.c:58, keyboard.c:64: whatever is typed and whenever, the only thing
\* that makes count differ from the bytes between head and tail is an interrupt
\* between the load and the store of count--, and each takes one off.
CountExact ==
  kpc \notin {"dec", "dec2"} => kcount = (Len(typed) - Len(taken) - lost) % UINT8

\* keyboard.c:54, keyboard.c:63: KEYBOARD takes the bytes the keyboard sent, each
\* once and in order, and none that was not sent, until head leaves the buffer.
\* Lost counts only delay it; what does harm is a second byte taken when count is
\* 0, and a byte written over one that is still to be taken.
TakesWhatWasTyped ==
  ~torn /\ ~overrun =>
    /\ Len(taken) <= Len(typed)
    /\ \A k \in 1 .. Len(taken) : k <= BUFFER_SIZE => taken[k] = typed[k][2]

\* tty.c:51, tty.c:31: since the last flush a terminal has processed the first of
\* the characters put into its queue, each once and in order, however far KEYBOARD
\* is ahead, whatever is flushed or switched meanwhile and wherever the clock
\* ticks, unless the flush falls into buf_size++ or the character is taken before
\* it is stored.  The queue's counter holds one character less than it has values.
ShowsWhatWasPut ==
  ~raced => \A n \in Tty : Len(put[n]) < UINT8 => IsPrefix(got[n], put[n])

\* tty.c:51, tty.c:57: every character typed is processed in the end, once, in
\* order, on the terminal the user was looking at, and every command returns.
KeysArrive == <>[](tpc = "poll" /\ shown = Wanted)
================================================================================
