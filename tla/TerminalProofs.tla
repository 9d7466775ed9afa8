---------------------------- MODULE TerminalProofs ----------------------------
(***************************************************************************)
(* What holds of Terminal for buffers of any size and any number of        *)
(* terminals and keys.                                                     *)
(***************************************************************************)
EXTENDS Terminal, TLAPS

--------------------------------------------------------------------------------
(* Types: whatever the user does and wherever an interrupt falls           *)

\* What fits the counter of a byte is what it holds.
LEMMA Byte ==
  /\ 0 \in 0 .. UINT8 - 1
  /\ \A n \in 0 .. UINT8 - 1 : n \in Nat /\ n % UINT8 = n
                             /\ (n + 1) % UINT8 \in 0 .. UINT8 - 1 /\ (n - 1) % UINT8 \in 0 .. UINT8 - 1
<1>1. UINT8 \in Nat \ {0}
  BY TerminalAssumption
<1>2. \A n \in Int : n % UINT8 \in 0 .. UINT8 - 1
  BY <1>1
<1>3. ASSUME NEW n \in 0 .. UINT8 - 1
      PROVE  n \in Nat /\ n % UINT8 = n /\ (n + 1) % UINT8 \in 0 .. UINT8 - 1 /\ (n - 1) % UINT8 \in 0 .. UINT8 - 1
  <2>1. n \in Nat /\ n + 1 \in Int /\ n - 1 \in Int
    BY <1>1
  <2>2. n % UINT8 = n
    BY <1>1
  <2> QED BY <1>2, <2>1, <2>2
<1> QED BY <1>1, <1>3

LEMMA Terminals == 0 \in Tty /\ \A c \in Switches : -(c + 1) \in Tty
  BY TerminalAssumption DEF Tty, Switches

\* The types of the state and of the histories of the keyboard.
Shape == TypeOK /\ typed \in Seq(Tty \X Code) /\ taken \in Seq(Code) /\ lost \in Nat

LEMMA InitShape == Init => Shape
<1> SUFFICES ASSUME Init PROVE Shape
  OBVIOUS
<1>1. NoChar \in Code /\ 0 \in 0 .. UINT8 - 1 /\ 0 \in Tty /\ 0 \in 0 .. BUFFER_SIZE - 1
  BY Byte, Terminals, TerminalAssumption DEF Code
<1>2. kbuf \in [0 .. BUFFER_SIZE - 1 -> Code]
  BY <1>1 DEF Init
<1>3. tty_table \in [Tty -> [buf_size : 0 .. UINT8 - 1, point : 0 .. UINT8 - 1,
                            pos : 0 .. UINT8 - 1, buf : [0 .. UINT8 - 1 -> Code]]]
  BY <1>1 DEF Init
<1> QED BY <1>1, <1>2, <1>3 DEF Init, Shape, TypeOK

LEMMA InterruptShape == ASSUME Shape, NEW code \in Keys, KeyInterrupt(code) PROVE Shape'
<1>1. /\ kbuf \in [0 .. BUFFER_SIZE - 1 -> Code] /\ ktail \in 0 .. BUFFER_SIZE - 1 /\ kcount \in 0 .. UINT8 - 1
      /\ BUFFER_SIZE \in Nat \ {0} /\ current_tty \in Tty /\ code \in Code
  BY TerminalAssumption DEF Shape, TypeOK
<1>2. /\ (kcount + 1) % UINT8 \in 0 .. UINT8 - 1
      /\ (IF ktail + 1 = BUFFER_SIZE THEN 0 ELSE ktail + 1) \in 0 .. BUFFER_SIZE - 1
      /\ [kbuf EXCEPT ![ktail] = code] \in [0 .. BUFFER_SIZE - 1 -> Code]
  <2>1. (kcount + 1) % UINT8 \in 0 .. UINT8 - 1
    BY <1>1, Byte
  <2>2. (IF ktail + 1 = BUFFER_SIZE THEN 0 ELSE ktail + 1) \in 0 .. BUFFER_SIZE - 1
    BY <1>1
  <2>3. [kbuf EXCEPT ![ktail] = code] \in [0 .. BUFFER_SIZE - 1 -> Code]
    BY <1>1
  <2> QED BY <2>1, <2>2, <2>3
<1>3. kbuf' \in [0 .. BUFFER_SIZE - 1 -> Code] /\ ktail' \in 0 .. BUFFER_SIZE - 1 /\ kcount' \in 0 .. UINT8 - 1
  BY <1>1, <1>2 DEF KeyInterrupt, Handler
<1>4. typed' \in Seq(Tty \X Code)
  BY <1>1 DEF KeyInterrupt, Shape
<1> QED BY <1>3, <1>4 DEF KeyInterrupt, Shape, TypeOK, taskVars, ttyVars

LEMMA KeyboardShape == ASSUME Shape, KeyboardTask PROVE Shape'
<1> USE DEF Shape, TypeOK
<1>1. CASE Fetch
  BY <1>1 DEF Fetch, ttyVars
<1>2. CASE Decrement
  BY <1>2, Byte DEF Decrement, ttyVars, keyHist, ttyHist
<1>3. CASE FetchSecond
  BY <1>3 DEF FetchSecond, ttyVars
<1>4. CASE DecrementSecond
  BY <1>4, Byte DEF DecrementSecond, ttyVars, keyHist, ttyHist
<1>5. CASE PutLoad
  BY <1>5 DEF PutLoad, kbVars, ttyVars, keyHist, ttyHist
<1>6. CASE PutStore
  <2>1. (kreg + 1) % UINT8 \in 0 .. UINT8 - 1
    BY Byte
  <2>2. tty_table' = [tty_table EXCEPT ![ktty] = [tty_table[ktty] EXCEPT !.buf_size = (kreg + 1) % UINT8]]
    BY <1>6 DEF PutStore
  <2> QED BY <1>6, <2>1, <2>2 DEF PutStore, kbVars, keyHist, ttyHist
<1>7. CASE PutChar
  <2>1. [tty_table[ktty].buf EXCEPT ![kreg] = byte1] \in [0 .. UINT8 - 1 -> Code]
    OBVIOUS
  <2>2. tty_table' = [tty_table EXCEPT ![ktty] = [tty_table[ktty] EXCEPT !.buf = [tty_table[ktty].buf EXCEPT ![kreg] = byte1]]]
    BY <1>7 DEF PutChar
  <2> QED BY <1>7, <2>1, <2>2 DEF PutChar, kbVars, keyHist, ttyHist
<1> QED BY <1>1, <1>2, <1>3, <1>4, <1>5, <1>6, <1>7 DEF KeyboardTask

LEMMA TtyShape == ASSUME Shape, TtyTask PROVE Shape'
<1> DEFINE Bytes == 0 .. UINT8 - 1
           Row == [0 .. UINT8 - 1 -> Code]
<1>0. tty_table \in [Tty -> [buf_size : Bytes, point : Bytes, pos : Bytes, buf : Row]] /\ current_tty \in Tty
  BY DEF Shape, TypeOK
<1>1. CASE TtyPrint
  <2> DEFINE t == tty_table[current_tty]
             c == t.buf[t.point]
             pos == CASE c \in {A, NoChar} -> (t.pos + 1) % UINT8
                      [] c = BKSP /\ t.pos > 0 -> t.pos - 1
                      [] OTHER -> t.pos
  <2>1. /\ t \in [buf_size : 0 .. UINT8 - 1, point : 0 .. UINT8 - 1, pos : 0 .. UINT8 - 1, buf : [0 .. UINT8 - 1 -> Code]]
        /\ current_tty \in Tty
    BY DEF Shape, TypeOK
  <2>2. t.pos \in 0 .. UINT8 - 1 /\ UINT8 \in Nat \ {0} /\ (t.pos + 1) % UINT8 \in 0 .. UINT8 - 1
        /\ (t.point + 1) % UINT8 \in 0 .. UINT8 - 1
    BY <2>1, Byte, TerminalAssumption
  <2>3. pos \in 0 .. UINT8 - 1
    <3> HIDE DEF c
    <3> QED BY <2>2
  <2>4. tty_table' = [tty_table EXCEPT ![current_tty].point = (t.point + 1) % UINT8, ![current_tty].pos = pos]
    BY <1>1 DEF TtyPrint
  <2>5. current_tty' \in Tty /\ tpc' \in {"poll", "command"}
    BY <1>1, <2>1, Terminals DEF TtyPrint
  <2>6. tty_table' \in [Tty -> [buf_size : Bytes, point : Bytes, pos : Bytes, buf : Row]]
    <3>1. (t.point + 1) % UINT8 \in Bytes /\ pos \in Bytes
      BY <2>2, <2>3
    <3> HIDE DEF t, pos, Bytes, Row
    <3> QED BY <1>0, <2>1, <2>4, <3>1
  <2> QED BY <1>1, <2>5, <2>6 DEF TtyPrint, kbVars, taskVars, keyHist, Shape, TypeOK
<1>2. CASE TtyFlush
  <2>1. tty_table' \in [Tty -> [buf_size : Bytes, point : Bytes, pos : Bytes, buf : Row]]
    <3>1. 0 \in Bytes
      BY Byte
    <3> HIDE DEF Bytes, Row
    <3> QED BY <1>0, <1>2, <3>1 DEF TtyFlush
  <2> QED BY <1>2, <2>1 DEF TtyFlush, kbVars, taskVars, keyHist, ttyHist, Shape, TypeOK
<1> QED BY <1>1, <1>2 DEF TtyTask

LEMMA StutterShape == Shape /\ UNCHANGED vars => Shape'
  BY DEF Shape, TypeOK, vars, kbVars, taskVars, ttyVars, keyHist, ttyHist

LEMMA NextShape == Shape /\ [Next]_vars => Shape'
  BY InterruptShape, KeyboardShape, TtyShape, StutterShape DEF Next

LEMMA ShapeInvariance == Spec => []Shape
  BY InitShape, NextShape, PTL DEF Spec

\* keyboard.c, tty.c: whatever is typed and wherever an interrupt falls, indices
\* stay in their buffers, but for head, and counters stay bytes.
THEOREM TerminalTypeCorrect == Spec => []TypeOK
<1>1. Shape => TypeOK
  BY DEF Shape
<1> QED BY <1>1, ShapeInvariance, PTL

--------------------------------------------------------------------------------
(* Remainders                                                              *)

\* A number has one remainder.
LEMMA RemainderUnique ==
  ASSUME NEW u \in Nat \ {0}, NEW a \in Int, NEW b \in Int, NEW q \in Int, NEW r \in Int,
         0 <= a, a < u, 0 <= b, b < u, a + u * q = b + u * r
  PROVE  a = b
<1>1. u * (q - r) = b - a
  <2>1. u * (q - r) = u * q - u * r
    OBVIOUS
  <2> QED BY <2>1
<1>2. CASE q - r >= 1
  <2>1. u * (q - r) >= u
    BY <1>2
  <2> QED BY <1>1, <2>1
<1>3. CASE q - r <= -1
  <2>1. u * (q - r) <= -u
    BY <1>3
  <2> QED BY <1>1, <2>1
<1>4. CASE q - r = 0
  <2>1. u * (q - r) = 0
    BY <1>4
  <2> QED BY <1>1, <2>1
<1> QED BY <1>2, <1>3, <1>4

\* What % gives.
LEMMA Remainder ==
  ASSUME NEW u \in Nat \ {0}, NEW x \in Int
  PROVE  x % u \in 0 .. u - 1 /\ \E q \in Int : x = (x % u) + u * q
<1>1. x % u \in 0 .. u - 1
  OBVIOUS
<1>2. x = (x % u) + u * (x \div u) /\ x \div u \in Int
  OBVIOUS
<1> QED BY <1>1, <1>2

LEMMA RemainderOfSum ==
  ASSUME NEW u \in Nat \ {0}, NEW a \in Int, NEW q \in Int, 0 <= a, a < u
  PROVE  (a + u * q) % u = a
<1> DEFINE x == a + u * q
<1>0. x \in Int
  OBVIOUS
<1>1. PICK r \in Int : x = (x % u) + u * r /\ x % u \in 0 .. u - 1
  <2> HIDE DEF x
  <2> QED BY <1>0, Remainder
<1>2. PICK b \in Int : b = x % u
  <2> HIDE DEF x
  <2> QED BY <1>1
<1>3. 0 <= b /\ b < u /\ a + u * q = b + u * r
  BY <1>1, <1>2
<1>4. a = b
  BY <1>3, RemainderUnique
<1> QED BY <1>2, <1>4

LEMMA RemainderIs ==
  ASSUME NEW u \in Nat \ {0}, NEW x \in Int, NEW a \in Int, NEW q \in Int, 0 <= a, a < u, x = a + u * q
  PROVE  x % u = a
BY RemainderOfSum

\* A counter that is a remainder follows what it counts up and down.
LEMMA RemainderSteps ==
  ASSUME NEW u \in Nat \ {0}, NEW x \in Int
  PROVE  ((x % u) + 1) % u = (x + 1) % u /\ ((x % u) - 1) % u = (x - 1) % u
<1>1. PICK q \in Int : x = (x % u) + u * q
  BY Remainder
<1>2. PICK a \in Int : a = x % u /\ 0 <= a /\ a < u
  BY Remainder
<1>3. x = a + u * q
  BY <1>1, <1>2
<1>4. (a + 1) % u = (x + 1) % u
  <2>1. CASE a + 1 < u
    <3>1. PICK b \in Int : b = a + 1
      OBVIOUS
    <3>2. PICK y \in Int : y = x + 1
      OBVIOUS
    <3>3. y = b + u * q /\ 0 <= b /\ b < u
      BY <1>2, <1>3, <2>1, <3>1, <3>2
    <3>4. y % u = b
      BY <3>3, RemainderIs
    <3>5. b % u = b
      BY <3>3
    <3> QED BY <3>1, <3>2, <3>4, <3>5
  <2>2. CASE a + 1 = u
    <3>1. PICK y \in Int : y = x + 1
      OBVIOUS
    <3>2. u * (q + 1) = u * q + u /\ u * 1 = u
      OBVIOUS
    <3>3. y = 0 + u * (q + 1) /\ u = 0 + u * 1
      BY <1>3, <2>2, <3>1, <3>2
    <3>4. y % u = 0
      BY <3>3, RemainderIs
    <3>5. u % u = 0
      BY <3>3, RemainderIs
    <3> QED BY <2>2, <3>1, <3>4, <3>5
  <2> QED BY <1>2, <2>1, <2>2
<1>5. (a - 1) % u = (x - 1) % u
  <2>1. CASE a > 0
    <3>1. PICK b \in Int : b = a - 1
      OBVIOUS
    <3>2. PICK y \in Int : y = x - 1
      OBVIOUS
    <3>3. y = b + u * q /\ 0 <= b /\ b < u
      BY <1>2, <1>3, <2>1, <3>1, <3>2
    <3>4. y % u = b
      BY <3>3, RemainderIs
    <3>5. b % u = b
      BY <3>3
    <3> QED BY <3>1, <3>2, <3>4, <3>5
  <2>2. CASE a = 0
    <3>1. PICK y \in Int : y = x - 1
      OBVIOUS
    <3>2. u * (q - 1) = u * q - u /\ u * (-1) = -u
      OBVIOUS
    <3>3. y = (u - 1) + u * (q - 1) /\ -1 = (u - 1) + u * (-1) /\ u - 1 \in Int /\ 0 <= u - 1
      BY <1>3, <2>2, <3>1, <3>2
    <3>4. PICK b \in Int : b = u - 1
      OBVIOUS
    <3>5. y % u = b
      BY <3>3, <3>4, RemainderIs
    <3>6. (-1) % u = b
      BY <3>3, <3>4, RemainderIs
    <3> QED BY <2>2, <3>1, <3>5, <3>6
  <2> QED BY <1>2, <2>1, <2>2
<1> QED BY <1>2, <1>4, <1>5
--------------------------------------------------------------------------------
(* The keyboard buffer                                                     *)

\* Bytes not taken yet, less those whose count was lost.
Counted == Len(typed) - Len(taken) - lost

\* Between its load and its store KEYBOARD has the count from before the byte it took.
CountInv ==
  /\ kpc \notin {"dec", "dec2"} => kcount = Counted % UINT8
  /\ kpc \in {"dec", "dec2"} => kreg = (Counted + 1) % UINT8

\* Until it has wrapped the tail is where the next byte belongs, and then it stays
\* behind that by the size of the buffer.
TailInv ==
  /\ khead = Len(taken)
  /\ Len(typed) < BUFFER_SIZE => ktail = Len(typed)
  /\ Len(typed) >= BUFFER_SIZE => ktail + BUFFER_SIZE <= Len(typed)

\* The bytes still to be taken are in the buffer, those taken were typed.
UnreadInv ==
  ~overrun => \A k \in 1 .. BUFFER_SIZE : Len(taken) < k /\ k <= Len(typed) => kbuf[k - 1] = typed[k][2]

TakenInv ==
  /\ ~torn => Counted >= 0
  /\ ~torn /\ ~overrun => \A k \in 1 .. Len(taken) : k <= BUFFER_SIZE => taken[k] = typed[k][2]

KInv == Shape /\ CountInv /\ TailInv /\ UnreadInv /\ TakenInv

LEMMA Lengths ==
  ASSUME Shape
  PROVE  /\ Len(typed) \in Nat /\ Len(taken) \in Nat /\ lost \in Nat /\ Counted \in Int
         /\ UINT8 \in Nat \ {0} /\ BUFFER_SIZE \in Nat \ {0} /\ UINT8 <= BUFFER_SIZE
         /\ kcount \in 0 .. UINT8 - 1 /\ kcount < BUFFER_SIZE
<1>1. /\ Len(typed) \in Nat /\ Len(taken) \in Nat /\ lost \in Nat
      /\ UINT8 \in Nat \ {0} /\ BUFFER_SIZE \in Nat \ {0} /\ UINT8 <= BUFFER_SIZE /\ kcount \in 0 .. UINT8 - 1
  BY TerminalAssumption DEF Shape, TypeOK
<1> QED BY <1>1 DEF Counted

LEMMA InitKInv == Init => KInv
<1> SUFFICES ASSUME Init PROVE KInv
  OBVIOUS
<1>1. Len(typed) = 0 /\ Len(taken) = 0 /\ lost = 0 /\ Counted = 0
  BY DEF Init, Counted
<1>2. 0 % UINT8 = 0 /\ BUFFER_SIZE \in Nat \ {0}
  BY Byte, TerminalAssumption
<1>3. CountInv
  BY <1>1, <1>2 DEF Init, CountInv
<1>4. TailInv /\ UnreadInv /\ TakenInv
  BY <1>1, <1>2 DEF Init, TailInv, UnreadInv, TakenInv
<1> QED BY <1>3, <1>4, InitShape DEF KInv

LEMMA InterruptKInv == ASSUME KInv, NEW code \in Keys, KeyInterrupt(code) PROVE KInv'
<1> DEFINE n == Len(typed)
           m == Len(taken)
<1>1. /\ n \in Nat /\ m \in Nat /\ lost \in Nat /\ Counted \in Int /\ kcount < BUFFER_SIZE
      /\ UINT8 \in Nat \ {0} /\ BUFFER_SIZE \in Nat \ {0} /\ kcount \in 0 .. UINT8 - 1
  BY Lengths DEF KInv
<1>2. /\ kbuf' = [kbuf EXCEPT ![ktail] = code] /\ kcount' = (kcount + 1) % UINT8
      /\ ktail' = IF ktail + 1 = BUFFER_SIZE THEN 0 ELSE ktail + 1
      /\ lost' = (IF kpc \in {"dec", "dec2"} THEN lost + 1 ELSE lost)
      /\ UNCHANGED <<khead, kpc, kreg, taken, torn>>
  BY <1>1 DEF KeyInterrupt, Handler, taskVars
<1>11. ~overrun' => ~overrun /\ ~(n - m >= BUFFER_SIZE)
  BY Zenon DEF KeyInterrupt
<1>3. /\ Len(typed') = n + 1 /\ typed'[n + 1][2] = code /\ \A k \in 1 .. n : typed'[k] = typed[k]
  <2>1. typed \in Seq(Tty \X Code) /\ current_tty \in Tty /\ code \in Code
    BY TerminalAssumption DEF KInv, Shape, TypeOK
  <2>2. typed' = Append(typed, <<current_tty, code>>)
    BY DEF KeyInterrupt
  <2> QED BY <2>1, <2>2
<1>4. Shape'
  BY InterruptShape DEF KInv
<1>5. Counted' = IF kpc \in {"dec", "dec2"} THEN Counted ELSE Counted + 1
  BY <1>1, <1>2, <1>3 DEF Counted
<1>6. CountInv'
  <2>1. CASE kpc \in {"dec", "dec2"}
    BY <1>2, <1>5, <2>1 DEF KInv, CountInv
  <2>2. CASE kpc \notin {"dec", "dec2"}
    <3>1. kcount = Counted % UINT8
      BY <2>2 DEF KInv, CountInv
    <3>2. kcount' = (Counted + 1) % UINT8
      BY <1>1, <1>2, <3>1, RemainderSteps
    <3> QED BY <1>2, <1>5, <2>2, <3>2 DEF CountInv
  <2> QED BY <2>1, <2>2
<1>7. kbuf \in [0 .. BUFFER_SIZE - 1 -> Code] /\ ktail \in 0 .. BUFFER_SIZE - 1
  BY DEF KInv, Shape, TypeOK
<1>8. TailInv'
  BY <1>1, <1>2, <1>3, <1>7 DEF KInv, TailInv
<1>9. UnreadInv'
  <2> SUFFICES ASSUME ~overrun', NEW k \in 1 .. BUFFER_SIZE, m < k, k <= n + 1
               PROVE  kbuf'[k - 1] = typed'[k][2]
    BY <1>2, <1>3 DEF UnreadInv
  <2>1. ~overrun /\ n - m < BUFFER_SIZE
    BY <1>1, <1>11
  <2>2. CASE k = n + 1
    <3>1. ktail = k - 1
      BY <1>1, <2>2 DEF KInv, TailInv
    <3> QED BY <1>2, <1>3, <1>7, <2>2, <3>1
  <2>3. CASE k <= n
    <3>1. ktail # k - 1
      BY <1>1, <1>7, <2>1, <2>3 DEF KInv, TailInv
    <3>2. kbuf'[k - 1] = kbuf[k - 1]
      BY <1>2, <1>7, <3>1
    <3>3. kbuf[k - 1] = typed[k][2]
      BY <2>1, <2>3 DEF KInv, UnreadInv
    <3> QED BY <1>1, <1>3, <2>3, <3>2, <3>3
  <2> QED BY <1>1, <2>2, <2>3
<1>10. TakenInv'
  <2>1. ~torn' => Counted' >= 0
    BY <1>1, <1>2, <1>5 DEF KInv, TakenInv
  <2>2. ASSUME ~torn', ~overrun', NEW k \in 1 .. m, k <= BUFFER_SIZE PROVE taken'[k] = typed'[k][2]
    <3>1. m <= n
      BY <1>1, <1>2, <2>2 DEF KInv, TakenInv, Counted
    <3>2. k \in 1 .. n /\ taken[k] = typed[k][2]
      BY <1>1, <1>2, <1>11, <2>2, <3>1 DEF KInv, TakenInv
    <3> QED BY <1>2, <1>3, <3>2
  <2> QED BY <1>2, <2>1, <2>2 DEF TakenInv
<1> QED BY <1>4, <1>6, <1>8, <1>9, <1>10 DEF KInv

LEMMA FetchKInv == ASSUME KInv, Fetch \/ FetchSecond PROVE KInv'
<1> DEFINE n == Len(typed)
           m == Len(taken)
<1>1. /\ n \in Nat /\ m \in Nat /\ lost \in Nat /\ Counted \in Int /\ kcount \in 0 .. UINT8 - 1
      /\ UINT8 \in Nat \ {0} /\ BUFFER_SIZE \in Nat \ {0}
  BY Lengths DEF KInv
<1>2. PICK b \in Code : Fetched(b) /\ taken' = Append(taken, b)
  BY DEF Fetch, FetchSecond
<1>3. /\ kpc \notin {"dec", "dec2"} /\ kpc' \in {"dec", "dec2"} /\ khead' = khead + 1 /\ kreg' = kcount
      /\ UNCHANGED <<kbuf, ktail, kcount, typed, lost, overrun>>
  BY <1>1 DEF Fetch, FetchSecond
<1>12. ~torn' => ~torn /\ (kpc = "test" \/ kcount # 0)
  BY Zenon DEF Fetch, FetchSecond
<1>13. kpc = "test" => kcount # 0
  BY <1>1 DEF Fetch, FetchSecond
<1>4. Len(taken') = m + 1 /\ taken'[m + 1] = b /\ \A k \in 1 .. m : taken'[k] = taken[k]
  <2>1. taken \in Seq(Code)
    BY DEF KInv, Shape
  <2> QED BY <1>2, <2>1
<1>5. Shape'
  BY KeyboardShape DEF KInv, KeyboardTask
<1>6. kcount = Counted % UINT8 /\ Counted' = Counted - 1
  BY <1>1, <1>3, <1>4 DEF KInv, CountInv, Counted
<1>7. CountInv'
  BY <1>1, <1>3, <1>6 DEF CountInv
<1>8. TailInv'
  BY <1>1, <1>3, <1>4 DEF KInv, TailInv
<1>9. UnreadInv'
  BY <1>1, <1>3, <1>4 DEF KInv, UnreadInv
<1>10. ASSUME ~torn' PROVE Counted > 0
  <2>1. ~torn /\ kcount # 0
    BY <1>10, <1>12, <1>13
  <2>2. Counted # 0
    BY <1>6, <2>1, Byte
  <2> QED BY <1>1, <2>1, <2>2 DEF KInv, TakenInv
<1>11. TakenInv'
  <2>1. ~torn' => Counted' >= 0
    BY <1>1, <1>6, <1>10
  <2>2. ASSUME ~torn', ~overrun', NEW k \in 1 .. m + 1, k <= BUFFER_SIZE PROVE taken'[k] = typed'[k][2]
    <3>1. ~torn /\ ~overrun
      BY <1>3, <1>12, <2>2
    <3>2. CASE k \in 1 .. m
      BY <1>3, <1>4, <2>2, <3>1, <3>2 DEF KInv, TakenInv
    <3>3. CASE k = m + 1
      <4>1. m + 1 <= n
        BY <1>1, <1>10, <2>2 DEF Counted
      <4>2. khead = m /\ khead < BUFFER_SIZE
        BY <1>1, <2>2, <3>3 DEF KInv, TailInv
      <4>3. b = kbuf[m]
        BY <1>2, <4>2 DEF Fetched
      <4>4. kbuf[k - 1] = typed[k][2]
        BY <1>1, <2>2, <3>1, <3>3, <4>1 DEF KInv, UnreadInv
      <4> QED BY <1>1, <1>3, <1>4, <3>3, <4>3, <4>4
    <3> QED BY <1>1, <3>2, <3>3
  <2> QED BY <1>4, <2>1, <2>2 DEF TakenInv
<1> QED BY <1>5, <1>7, <1>8, <1>9, <1>11 DEF KInv

LEMMA DecrementKInv == ASSUME KInv, Decrement \/ DecrementSecond PROVE KInv'
<1>1. Counted \in Int /\ UINT8 \in Nat \ {0}
  BY Lengths DEF KInv
<1>2. /\ kpc \in {"dec", "dec2"} /\ kpc' \notin {"dec", "dec2"} /\ kcount' = (kreg - 1) % UINT8
      /\ UNCHANGED <<kbuf, khead, ktail, typed, taken, lost, torn, overrun>>
  BY DEF Decrement, DecrementSecond, keyHist
<1>3. kreg = (Counted + 1) % UINT8 /\ Counted' = Counted
  BY <1>2 DEF KInv, CountInv, Counted
<1>4. kcount' = Counted % UINT8
  <2>1. PICK x \in Int : x = Counted + 1
    BY <1>1
  <2>2. kcount' = (x - 1) % UINT8
    BY <1>1, <1>2, <1>3, <2>1, RemainderSteps
  <2>3. x - 1 = Counted
    BY <1>1, <2>1
  <2> QED BY <2>2, <2>3
<1>5. CountInv'
  BY <1>2, <1>3, <1>4 DEF CountInv
<1>6. TailInv' /\ UnreadInv' /\ TakenInv'
  BY <1>2, <1>3 DEF KInv, TailInv, UnreadInv, TakenInv
<1>7. Shape'
  BY KeyboardShape DEF KInv, KeyboardTask
<1> QED BY <1>5, <1>6, <1>7 DEF KInv

LEMMA OtherKInv == ASSUME KInv, PutLoad \/ PutStore \/ PutChar \/ TtyTask \/ UNCHANGED vars PROVE KInv'
<1>1. Shape'
  BY KeyboardShape, TtyShape, StutterShape DEF KInv, KeyboardTask
<1>2. /\ UNCHANGED <<kbuf, khead, ktail, kcount, typed, taken, lost, torn, overrun>>
      /\ \/ UNCHANGED <<kpc, kreg>>
         \/ kpc \notin {"dec", "dec2"} /\ kpc' \notin {"dec", "dec2"}
  BY DEF PutLoad, PutStore, PutChar, TtyTask, TtyPrint, TtyFlush, vars, kbVars, taskVars, keyHist
<1>3. Counted' = Counted
  BY <1>2 DEF Counted
<1>4. CountInv' /\ TailInv' /\ UnreadInv' /\ TakenInv'
  BY <1>2, <1>3 DEF KInv, CountInv, TailInv, UnreadInv, TakenInv
<1> QED BY <1>1, <1>4 DEF KInv

LEMMA KeyboardInvariance == Spec => []KInv
<1>1. ASSUME KInv, [Next]_vars PROVE KInv'
  BY <1>1, InterruptKInv, FetchKInv, DecrementKInv, OtherKInv DEF Next, KeyboardTask
<1>2. KInv /\ [Next]_vars => KInv'
  BY <1>1
<1> QED BY <1>2, InitKInv, PTL DEF Spec

\* keyboard.c:58, keyboard.c:64: wherever the interrupts fall, count is the number of
\* bytes typed and not taken, as a byte holds it, less one for each interrupt between
\* the load and the store of count--.
THEOREM CountIsExact == Spec => []CountExact
<1>1. KInv => CountExact
  BY DEF KInv, CountInv, CountExact, Counted
<1> QED BY <1>1, KeyboardInvariance, PTL

\* keyboard.c:54, keyboard.c:63: unless a second byte is taken when count is 0, or a byte
\* written over one to be taken, KEYBOARD takes the bytes the keyboard sent, each once,
\* in order and none that was not sent, as far as the buffer reaches.
THEOREM TakenAsTyped == Spec => []TakesWhatWasTyped
<1>1. ASSUME KInv PROVE TakesWhatWasTyped
  <2>1. ~torn => Len(taken) <= Len(typed)
    BY <1>1, Lengths DEF KInv, TakenInv, Counted
  <2> QED BY <1>1, <2>1 DEF KInv, TakenInv, TakesWhatWasTyped
<1>2. KInv => TakesWhatWasTyped
  BY <1>1
<1> QED BY <1>2, KeyboardInvariance, PTL

--------------------------------------------------------------------------------
(* The queue of a terminal                                                 *)

\* A character is counted but not stored yet.
Pending(n, i) == kpc = "fill" /\ ktty = n /\ i = kreg + 1

\* Terminal n has taken the first of the characters put into its queue, and the
\* queue holds them; KEYBOARD puts the next one behind them, unless it finds them
\* flushed.
InOrder(n) ==
  /\ tty_table[n].point = Len(got[n]) /\ tty_table[n].buf_size = Len(put[n]) /\ Len(got[n]) <= Len(put[n])
  /\ \A i \in 1 .. Len(got[n]) : got[n][i] = put[n][i]
  /\ \A i \in 1 .. Len(put[n]) : ~Pending(n, i) => tty_table[n].buf[i - 1] = put[n][i]
  /\ kpc = "put" /\ ktty = n => kreg = Len(put[n])
  /\ kpc = "fill" /\ ktty = n =>
       \/ Len(put[n]) <= kreg
       \/ kreg + 1 = Len(put[n]) /\ Len(got[n]) <= kreg /\ put[n][kreg + 1] = byte1

QueueType == put \in [Tty -> Seq(Code)] /\ got \in [Tty -> Seq(Code)]

QueueInv == ~raced => \A n \in Tty : Len(put[n]) < UINT8 => InOrder(n)

QInv == Shape /\ QueueType /\ QueueInv

LEMMA InitQInv == Init => QInv
<1> SUFFICES ASSUME Init PROVE QInv
  OBVIOUS
<1>1. QueueType
  BY DEF Init, QueueType
<1>2. ASSUME NEW n \in Tty PROVE InOrder(n)
  BY DEF Init, InOrder, Pending
<1> QED BY <1>1, <1>2, InitShape DEF QInv, QueueInv

LEMMA Queues ==
  ASSUME QInv, NEW n \in Tty
  PROVE  /\ put[n] \in Seq(Code) /\ got[n] \in Seq(Code) /\ Len(put[n]) \in Nat /\ Len(got[n]) \in Nat
         /\ UINT8 \in Nat \ {0} /\ kreg \in 0 .. UINT8 - 1 /\ ktty \in Tty /\ current_tty \in Tty /\ byte1 \in Code
         /\ DOMAIN tty_table = Tty
         /\ tty_table[n] \in [buf_size : 0 .. UINT8 - 1, point : 0 .. UINT8 - 1,
                              pos : 0 .. UINT8 - 1, buf : [0 .. UINT8 - 1 -> Code]]
  BY TerminalAssumption DEF QInv, QueueType, Shape, TypeOK

\* A step that leaves the queues alone, and KEYBOARD outside tty_putc.
LEMMA AsideQInv ==
  ASSUME QInv, Shape', UNCHANGED <<tty_table, put, got>>, ~raced' => ~raced,
         \/ UNCHANGED <<kpc, kreg, byte1, ktty>>
         \/ kpc' \notin {"put", "fill"} /\ kpc # "fill"
  PROVE  QInv'
<1>1. QueueType'
  BY DEF QInv, QueueType
<1>2. ASSUME ~raced', NEW n \in Tty, Len(put'[n]) < UINT8 PROVE InOrder(n)'
  <2>1. ~raced
    BY <1>2
  <2>2. InOrder(n)
    BY <1>2, <2>1 DEF QInv, QueueInv
  <2> QED BY <2>2 DEF InOrder, Pending
<1> QED BY <1>1, <1>2 DEF QInv, QueueInv

LEMMA PutLoadQInv == ASSUME QInv, PutLoad PROVE QInv'
<1>1. /\ ktty' = current_tty /\ kreg' = tty_table[current_tty].buf_size /\ kpc = "ascii" /\ kpc' = "put"
      /\ UNCHANGED <<tty_table, put, got>>
  BY DEF PutLoad, ttyVars, ttyHist
<1>2. Shape' /\ QueueType'
  BY <1>1, KeyboardShape DEF QInv, QueueType, KeyboardTask
<1>3. ASSUME ~raced', NEW n \in Tty, Len(put'[n]) < UINT8 PROVE InOrder(n)'
  <2>1. ~raced
    BY <1>3, Zenon DEF PutLoad, ttyHist
  <2>2. InOrder(n)
    BY <1>1, <1>3, <2>1 DEF QInv, QueueInv
  <2> QED BY <1>1, <2>2 DEF InOrder, Pending
<1> QED BY <1>2, <1>3 DEF QInv, QueueInv

LEMMA PutStoreQInv == ASSUME QInv, PutStore PROVE QInv'
<1>1. /\ tty_table' = [tty_table EXCEPT ![ktty] = [tty_table[ktty] EXCEPT !.buf_size = (kreg + 1) % UINT8]]
      /\ put' = [put EXCEPT ![ktty] = Append(put[ktty], byte1)]
      /\ kpc = "put" /\ kpc' = "fill" /\ UNCHANGED <<kreg, byte1, ktty, got>>
  BY DEF PutStore
<1>2. Shape'
  BY KeyboardShape DEF QInv, KeyboardTask
<1>3. ktty \in Tty /\ byte1 \in Code /\ put[ktty] \in Seq(Code)
  BY Queues DEF QInv, Shape, TypeOK
<1>4. QueueType'
  <2>1. Append(put[ktty], byte1) \in Seq(Code)
    BY <1>3
  <2> QED BY <1>1, <2>1 DEF QInv, QueueType
<1>5. ASSUME ~raced', NEW n \in Tty, Len(put'[n]) < UINT8 PROVE InOrder(n)'
  <2>1. ~raced
    BY <1>5, Zenon DEF PutStore
  <2>2. CASE n # ktty
    <3>1. put'[n] = put[n] /\ tty_table'[n] = tty_table[n]
      BY <1>1, <2>2, Queues DEF QInv, QueueType
    <3>2. InOrder(n)
      BY <1>5, <2>1, <3>1 DEF QInv, QueueInv
    <3> QED BY <1>1, <2>2, <3>1, <3>2 DEF InOrder, Pending
  <2>3. CASE n = ktty
    <3> DEFINE m == Len(put[n])
    <3>1. /\ put[n] \in Seq(Code) /\ Len(put[n]) \in Nat /\ Len(got[n]) \in Nat
          /\ UINT8 \in Nat \ {0} /\ DOMAIN tty_table = Tty
          /\ tty_table[n] \in [buf_size : 0 .. UINT8 - 1, point : 0 .. UINT8 - 1,
                              pos : 0 .. UINT8 - 1, buf : [0 .. UINT8 - 1 -> Code]]
      BY Queues
    <3>2. put'[n] = Append(put[n], byte1)
      BY <1>1, <2>3 DEF QInv, QueueType
    <3>3. Len(put'[n]) = m + 1 /\ put'[n][m + 1] = byte1 /\ \A i \in 1 .. m : put'[n][i] = put[n][i]
      BY <1>3, <3>1, <3>2
    <3>4. m < UINT8 /\ m + 1 < UINT8
      BY <1>5, <3>1, <3>3
    <3>5. InOrder(n)
      BY <1>5, <2>1, <3>4 DEF QInv, QueueInv
    <3>6. kreg = m /\ (kreg + 1) % UINT8 = m + 1
      <4>1. kreg = m
        BY <1>1, <2>3, <3>5 DEF InOrder
      <4>2. m + 1 \in 0 .. UINT8 - 1
        BY <3>1, <3>4
      <4>3. (m + 1) % UINT8 = m + 1
        BY <4>2, Byte
      <4> QED BY <4>1, <4>3
    <3>7. /\ tty_table'[n].buf_size = m + 1 /\ tty_table'[n].point = tty_table[n].point
          /\ tty_table'[n].buf = tty_table[n].buf
      BY <1>1, <2>3, <3>1, <3>6
    <3>8. /\ tty_table[n].point = Len(got[n]) /\ Len(got[n]) <= m
          /\ \A i \in 1 .. Len(got[n]) : got[n][i] = put[n][i]
          /\ \A i \in 1 .. m : tty_table[n].buf[i - 1] = put[n][i]
      BY <1>1, <3>5 DEF InOrder, Pending
    <3>9. \A i \in 1 .. Len(got[n]) : got'[n][i] = put'[n][i]
      BY <1>1, <3>1, <3>3, <3>8
    <3>10. \A i \in 1 .. m + 1 : ~Pending(n, i)' => tty_table'[n].buf[i - 1] = put'[n][i]
      <4> SUFFICES ASSUME NEW i \in 1 .. m + 1, ~Pending(n, i)' PROVE tty_table'[n].buf[i - 1] = put'[n][i]
        OBVIOUS
      <4>1. i # m + 1
        BY <1>1, <2>3, <3>6 DEF Pending
      <4>2. i \in 1 .. m
        BY <3>1, <4>1
      <4> QED BY <3>3, <3>7, <3>8, <4>2
    <3>11. Len(got'[n]) = Len(got[n]) /\ Len(got[n]) <= m + 1 /\ Len(got[n]) <= kreg /\ kreg' = m /\ byte1' = byte1
      BY <1>1, <3>1, <3>6, <3>8
    <3> HIDE DEF m
    <3> QED BY <1>1, <3>3, <3>7, <3>8, <3>9, <3>10, <3>11, <3>6 DEF InOrder
  <2> QED BY <2>2, <2>3
<1> QED BY <1>2, <1>4, <1>5 DEF QInv, QueueInv

LEMMA PutCharQInv == ASSUME QInv, PutChar PROVE QInv'
<1>1. /\ tty_table' = [tty_table EXCEPT ![ktty] = [tty_table[ktty] EXCEPT !.buf = [tty_table[ktty].buf EXCEPT ![kreg] = byte1]]]
      /\ kpc = "fill" /\ kpc' = "test" /\ UNCHANGED <<kreg, byte1, ktty, put, got>>
  BY DEF PutChar, ttyHist
<1>2. Shape' /\ QueueType'
  BY <1>1, KeyboardShape DEF QInv, QueueType, KeyboardTask
<1>3. ASSUME ~raced', NEW n \in Tty, Len(put'[n]) < UINT8 PROVE InOrder(n)'
  <2>1. ~raced
    BY <1>3, Zenon DEF PutChar, ttyHist
  <2>2. InOrder(n)
    BY <1>1, <1>3, <2>1 DEF QInv, QueueInv
  <2>3. CASE n # ktty
    <3>1. tty_table'[n] = tty_table[n]
      BY <1>1, <2>3, Queues
    <3> QED BY <1>1, <2>2, <2>3, <3>1 DEF InOrder, Pending
  <2>4. CASE n = ktty
    <3>1. /\ Len(put[n]) \in Nat /\ Len(got[n]) \in Nat /\ kreg \in 0 .. UINT8 - 1 /\ DOMAIN tty_table = Tty
          /\ tty_table[n] \in [buf_size : 0 .. UINT8 - 1, point : 0 .. UINT8 - 1,
                              pos : 0 .. UINT8 - 1, buf : [0 .. UINT8 - 1 -> Code]]
          /\ UINT8 \in Nat \ {0}
      BY Queues
    <3>2. /\ tty_table'[n].point = tty_table[n].point /\ tty_table'[n].buf_size = tty_table[n].buf_size
          /\ tty_table'[n].buf = [tty_table[n].buf EXCEPT ![kreg] = byte1]
      BY <1>1, <2>4, <3>1
    <3>3. \A i \in 1 .. Len(put[n]) : tty_table'[n].buf[i - 1] = put[n][i]
      <4> SUFFICES ASSUME NEW i \in 1 .. Len(put[n]) PROVE tty_table'[n].buf[i - 1] = put[n][i]
        OBVIOUS
      <4>0. i - 1 \in 0 .. UINT8 - 1
        BY <1>1, <1>3, <3>1
      <4>1. CASE i = kreg + 1
        <5>1. put[n][i] = byte1
          BY <1>1, <2>2, <2>4, <3>1, <4>1 DEF InOrder
        <5>2. i - 1 = kreg
          BY <3>1, <4>1
        <5> QED BY <3>1, <3>2, <5>1, <5>2
      <4>2. CASE i # kreg + 1
        <5>1. tty_table[n].buf[i - 1] = put[n][i]
          BY <2>2, <4>2 DEF InOrder, Pending
        <5>2. i - 1 # kreg
          BY <3>1, <4>2
        <5> QED BY <3>1, <3>2, <4>0, <5>1, <5>2
      <4> QED BY <4>1, <4>2
    <3> QED BY <1>1, <2>2, <3>2, <3>3 DEF InOrder
  <2> QED BY <2>3, <2>4
<1> QED BY <1>2, <1>3 DEF QInv, QueueInv

LEMMA TtyPrintQInv == ASSUME QInv, TtyPrint PROVE QInv'
<1> DEFINE t == tty_table[current_tty]
           c == t.buf[t.point]
           pos == CASE c \in {A, NoChar} -> (t.pos + 1) % UINT8
                    [] c = BKSP /\ t.pos > 0 -> t.pos - 1
                    [] OTHER -> t.pos
<1>1. /\ t.point < t.buf_size
      /\ tty_table' = [tty_table EXCEPT ![current_tty] = [t EXCEPT !.point = (t.point + 1) % UINT8, !.pos = pos]]
      /\ got' = [got EXCEPT ![current_tty] = Append(got[current_tty], c)]
      /\ UNCHANGED <<kpc, kreg, byte1, ktty, put>>
  <2>1. tty_table' = [tty_table EXCEPT ![current_tty] = [t EXCEPT !.point = (t.point + 1) % UINT8, !.pos = pos]]
    <3>1. tty_table' = [tty_table EXCEPT ![current_tty].point = (t.point + 1) % UINT8, ![current_tty].pos = pos]
      BY DEF TtyPrint
    <3>2. current_tty \in Tty
      BY DEF QInv, Shape, TypeOK
    <3>3. /\ t \in [buf_size : 0 .. UINT8 - 1, point : 0 .. UINT8 - 1, pos : 0 .. UINT8 - 1, buf : [0 .. UINT8 - 1 -> Code]]
          /\ tty_table = [n \in Tty |-> tty_table[n]]
      BY <3>2, Queues DEF QInv, Shape, TypeOK
    <3> HIDE DEF pos
    <3> QED BY <3>1, <3>2, <3>3
  <2>2. got' = [got EXCEPT ![current_tty] = Append(got[current_tty], c)]
    BY DEF TtyPrint
  <2> HIDE DEF pos, c
  <2> QED BY <2>1, <2>2 DEF TtyPrint, taskVars
<1> HIDE DEF pos
<1>2. current_tty \in Tty /\ t.point \in 0 .. UINT8 - 1 /\ c \in Code /\ got[current_tty] \in Seq(Code)
  BY Queues DEF QInv, Shape, TypeOK
<1>3. Shape' /\ QueueType'
  <2>1. Append(got[current_tty], c) \in Seq(Code)
    BY <1>2
  <2> QED BY <1>1, <2>1, TtyShape DEF QInv, QueueType, TtyTask
<1>4. ASSUME ~raced', NEW n \in Tty, Len(put'[n]) < UINT8 PROVE InOrder(n)'
  <2>1. ~raced /\ ~(kpc = "fill" /\ ktty = current_tty /\ kreg = t.point)
    BY <1>4, Zenon DEF TtyPrint
  <2>2. InOrder(n)
    BY <1>1, <1>4, <2>1 DEF QInv, QueueInv
  <2>3. CASE n # current_tty
    <3>1. tty_table'[n] = tty_table[n] /\ got'[n] = got[n]
      BY <1>1, <2>3, Queues DEF QInv, QueueType
    <3> QED BY <1>1, <2>2, <3>1 DEF InOrder, Pending
  <2>4. CASE n = current_tty
    <3> DEFINE m == Len(got[n])
    <3>1. /\ got[n] \in Seq(Code) /\ Len(put[n]) \in Nat /\ m \in Nat /\ kreg \in 0 .. UINT8 - 1 /\ DOMAIN tty_table = Tty
          /\ tty_table[n] \in [buf_size : 0 .. UINT8 - 1, point : 0 .. UINT8 - 1,
                              pos : 0 .. UINT8 - 1, buf : [0 .. UINT8 - 1 -> Code]]
          /\ UINT8 \in Nat \ {0}
      BY Queues
    <3>2. t.point = m /\ m < Len(put[n]) /\ t.buf_size = Len(put[n]) /\ (t.point + 1) % UINT8 = m + 1
      <4>1. t.point = m /\ m < Len(put[n]) /\ t.buf_size = Len(put[n])
        BY <1>1, <2>2, <2>4 DEF InOrder
      <4>2. m + 1 \in 0 .. UINT8 - 1
        BY <1>1, <1>4, <3>1, <4>1
      <4>3. (m + 1) % UINT8 = m + 1
        BY <4>2, Byte
      <4> QED BY <4>1, <4>3
    <3>3. c = put[n][m + 1]
      <4>1. m + 1 \in 1 .. Len(put[n]) /\ (m + 1) - 1 = m
        BY <3>1, <3>2
      <4>2. ~Pending(n, m + 1)
        <5>1. m + 1 = kreg + 1 => kreg = m
          BY <3>1
        <5> QED BY <2>1, <2>4, <3>2, <5>1 DEF Pending
      <4> QED BY <2>2, <2>4, <3>2, <4>1, <4>2 DEF InOrder
    <3>4. got'[n] = Append(got[n], c)
      BY <1>1, <2>4 DEF QInv, QueueType
    <3> HIDE DEF c
    <3>5. Len(got'[n]) = m + 1 /\ \A i \in 1 .. m + 1 : got'[n][i] = put[n][i]
      <4>1. Len(got'[n]) = m + 1 /\ got'[n][m + 1] = c /\ \A i \in 1 .. m : got'[n][i] = got[n][i]
        BY <1>2, <3>1, <3>4
      <4>2. \A i \in 1 .. m : got[n][i] = put[n][i]
        BY <2>2 DEF InOrder
      <4>3. ASSUME NEW i \in 1 .. m + 1 PROVE got'[n][i] = put[n][i]
        <5>1. CASE i = m + 1
          BY <3>3, <4>1, <5>1
        <5>2. CASE i # m + 1
          <6>1. i \in 1 .. m
            BY <3>1, <5>2
          <6> QED BY <4>1, <4>2, <6>1
        <5> QED BY <5>1, <5>2
      <4> QED BY <4>1, <4>3
    <3>6. /\ tty_table'[n].point = m + 1 /\ tty_table'[n].buf_size = Len(put[n]) /\ tty_table'[n].buf = t.buf
      BY <1>1, <2>4, <3>1, <3>2
    <3>7. m + 1 <= Len(put[n])
      BY <3>1, <3>2
    <3>8. kpc = "fill" /\ ktty = n => Len(put[n]) <= kreg \/ (kreg + 1 = Len(put[n]) /\ m + 1 <= kreg /\ put[n][kreg + 1] = byte1)
      <4> SUFFICES ASSUME kpc = "fill", ktty = n, ~(Len(put[n]) <= kreg)
                   PROVE  kreg + 1 = Len(put[n]) /\ m + 1 <= kreg /\ put[n][kreg + 1] = byte1
        OBVIOUS
      <4>1. kreg + 1 = Len(put[n]) /\ m <= kreg /\ put[n][kreg + 1] = byte1
        BY <2>2 DEF InOrder
      <4>2. kreg # m
        BY <2>1, <2>4, <3>2
      <4> QED BY <3>1, <4>1, <4>2
    <3> HIDE DEF m
    <3> QED BY <1>1, <2>2, <2>4, <3>5, <3>6, <3>7, <3>8 DEF InOrder, Pending
  <2> QED BY <2>3, <2>4
<1> QED BY <1>3, <1>4 DEF QInv, QueueInv

LEMMA TtyFlushQInv == ASSUME QInv, TtyFlush PROVE QInv'
<1>1. /\ tty_table' = [tty_table EXCEPT ![current_tty] = [tty_table[current_tty] EXCEPT !.buf_size = 0, !.point = 0, !.pos = 0]]
      /\ put' = [put EXCEPT ![current_tty] = <<>>] /\ got' = [got EXCEPT ![current_tty] = <<>>]
      /\ UNCHANGED <<kpc, kreg, byte1, ktty>>
  BY DEF TtyFlush, Flushed, taskVars
<1>2. Shape' /\ QueueType'
  <2>1. <<>> \in Seq(Code)
    OBVIOUS
  <2>2. QueueType'
    BY <1>1, <2>1 DEF QInv, QueueType
  <2> QED BY <2>2, TtyShape DEF QInv, TtyTask
<1>3. ASSUME ~raced', NEW n \in Tty, Len(put'[n]) < UINT8 PROVE InOrder(n)'
  <2>1. ~raced /\ ~(kpc = "put" /\ ktty = current_tty)
    BY <1>3, Zenon DEF TtyFlush, Flushed
  <2>2. CASE n # current_tty
    <3>1. tty_table'[n] = tty_table[n] /\ got'[n] = got[n] /\ put'[n] = put[n]
      BY <1>1, <2>2, Queues DEF QInv, QueueType
    <3>2. InOrder(n)
      BY <1>3, <2>1, <3>1 DEF QInv, QueueInv
    <3> QED BY <1>1, <3>1, <3>2 DEF InOrder, Pending
  <2>3. CASE n = current_tty
    <3>1. put'[n] = <<>> /\ got'[n] = <<>> /\ tty_table'[n].point = 0 /\ tty_table'[n].buf_size = 0 /\ 0 <= kreg
      BY <1>1, <2>3, Queues DEF QInv, QueueType
    <3> QED BY <1>1, <2>1, <2>3, <3>1 DEF InOrder
  <2> QED BY <2>2, <2>3
<1> QED BY <1>2, <1>3 DEF QInv, QueueInv

LEMMA QueueInvariance == Spec => []QInv
<1>1. ASSUME QInv, [Next]_vars PROVE QInv'
  <2>1. ASSUME NEW code \in Keys, KeyInterrupt(code) PROVE QInv'
    <3>1. UNCHANGED <<tty_table, put, got, kpc, kreg, byte1, ktty>>
      BY <2>1 DEF KeyInterrupt, taskVars, ttyVars, ttyHist
    <3>2. ~raced' => ~raced
      BY <2>1, Zenon DEF KeyInterrupt, ttyHist
    <3>3. Shape'
      BY <1>1, <2>1, InterruptShape DEF QInv
    <3> QED BY <1>1, <3>1, <3>2, <3>3, AsideQInv
  <2>2. CASE Fetch \/ Decrement \/ FetchSecond \/ DecrementSecond
    <3>1. UNCHANGED <<tty_table, put, got>> /\ kpc' \notin {"put", "fill"} /\ kpc # "fill"
      BY <2>2 DEF Fetch, Decrement, FetchSecond, DecrementSecond, ttyVars, ttyHist
    <3>2. ~raced' => ~raced
      BY <2>2, Zenon DEF Fetch, Decrement, FetchSecond, DecrementSecond, ttyHist
    <3>3. Shape'
      BY <1>1, <2>2, KeyboardShape DEF QInv, KeyboardTask
    <3> QED BY <1>1, <3>1, <3>2, <3>3, AsideQInv
  <2>3. CASE UNCHANGED vars
    <3>1. UNCHANGED <<tty_table, put, got, kpc, kreg, byte1, ktty>>
      BY <2>3 DEF vars, taskVars, ttyVars, ttyHist
    <3>2. ~raced' => ~raced
      BY <2>3, Zenon DEF vars, ttyHist
    <3>3. Shape'
      BY <1>1, <2>3, StutterShape DEF QInv
    <3> QED BY <1>1, <3>1, <3>2, <3>3, AsideQInv
  <2> QED BY <1>1, <2>1, <2>2, <2>3, PutLoadQInv, PutStoreQInv, PutCharQInv, TtyPrintQInv, TtyFlushQInv
          DEF Next, KeyboardTask, TtyTask
<1>2. QInv /\ [Next]_vars => QInv'
  BY <1>1
<1> QED BY <1>2, InitQInv, PTL DEF Spec

\* tty.c:51, tty.c:31: whatever is typed, flushed and switched and wherever the clock
\* ticks, a terminal processes the characters put into its queue since its last flush
\* in order and once, but for a flush inside buf_size++, a character taken before it
\* is stored, and a queue of more characters than its counter can count.
THEOREM ShownAsPut == Spec => []ShowsWhatWasPut
<1>1. ASSUME QInv PROVE ShowsWhatWasPut
  <2> SUFFICES ASSUME ~raced, NEW n \in Tty, Len(put[n]) < UINT8 PROVE IsPrefix(got[n], put[n])
    BY DEF ShowsWhatWasPut
  <2> DEFINE m == Len(got[n])
  <2>1. InOrder(n)
    BY <1>1 DEF QInv, QueueInv
  <2>2. got[n] \in Seq(Code) /\ put[n] \in Seq(Code) /\ m \in Nat /\ Len(put[n]) \in Nat
    BY <1>1, Queues
  <2>3. m <= Len(put[n]) /\ \A i \in 1 .. m : got[n][i] = put[n][i]
    BY <2>1 DEF InOrder
  <2>4. SubSeq(put[n], 1, m) = [i \in 1 .. m |-> put[n][i]]
    BY <2>2, <2>3
  <2>5. got[n] = [i \in 1 .. m |-> got[n][i]]
    BY <2>2
  <2>6. SubSeq(got[n], 1, m) = got[n]
    BY <2>2, <2>5
  <2> HIDE DEF m
  <2>7. got[n] = SubSeq(put[n], 1, m)
    BY <2>3, <2>4, <2>5
  <2> QED BY <2>2, <2>3, <2>6, <2>7 DEF IsPrefix, m
<1>2. QInv => ShowsWhatWasPut
  BY <1>1
<1> QED BY <1>2, QueueInvariance, PTL
================================================================================
