------------------------------ MODULE Console -------------------------------
(***************************************************************************)
(* The console: the line discipline of kernel/console.c and the transmit   *)
(* ring of kernel/uart.c, with the interrupt handler that feeds the one    *)
(* and drains the other.                                                   *)
(*                                                                         *)
(* A section under uart_tx_lock is one step.  One under cons.lock is a     *)
(* step per character, because the handler waits for the device to echo    *)
(* it, and because a process may be killed between the test of p->killed   *)
(* and the sleep.  The handler runs on one CPU at a time: the interrupt    *)
(* controller gives the interrupt again when it has been completed.  The   *)
(* indices wrap around; what is transmitted is not recorded.               *)
(***************************************************************************)
EXTENDS Integers, Sequences

CONSTANTS
  Readers, Writers,   \* the processes
  Typed,              \* the characters that may be typed
  INPUT_BUF_SIZE,
  UART_TX_BUF_SIZE,
  M, TxM,             \* the indices are counted modulo these (2^32 and 2^64)
  Counts              \* the n of a consoleread

Size == INPUT_BUF_SIZE
ASSUME ConsoleAssumption ==
  /\ Size \in Nat \ {0} /\ M \in Nat /\ Size < M /\ M % Size = 0
  /\ UART_TX_BUF_SIZE \in Nat \ {0} /\ TxM \in Nat /\ UART_TX_BUF_SIZE < TxM
  /\ TxM % UART_TX_BUF_SIZE = 0
  /\ Typed \subseteq {"x", "nl", "cr", "^D", "^U", "^H", "^P"}   \* "x" is any other

VARIABLES
  buf, r, w, e,   \* cons
  lock,           \* who holds cons.lock between two steps
  txr, txw,       \* uart_tx_r and uart_tx_w
  rhr,            \* the device has received a character
  busy,           \* the device is sending: LSR_TX_IDLE is clear
  irq,            \* the device asks for an interrupt
  hpc, hc, echo,  \* uartintr: where it is, its character, what is left to echo
  pc, n, target,  \* the processes: consoleread and uartputc
  killed

cons == <<buf, r, w, e, lock>>
tx == <<txr, txw>>
device == <<rhr, busy, irq>>
handler == <<hpc, hc, echo>>
procs == <<pc, n, target, killed>>
vars == <<cons, tx, device, handler, procs>>

None == "none"
Free == "free"
Intr == "intr"
ASSUME CountAssumption == Counts \subseteq Nat \ {0}
ASSUME HolderAssumption == Free \notin Readers /\ Intr \notin Readers

Init ==
  /\ buf = [i \in 0 .. Size - 1 |-> "x"] /\ r = 0 /\ w = 0 /\ e = 0 /\ lock = Free
  /\ txr = 0 /\ txw = 0
  /\ rhr = FALSE /\ busy = FALSE /\ irq = FALSE
  /\ hpc = "out" /\ hc = None /\ echo = 0
  /\ pc = [p \in Readers \cup Writers |-> "user"]
  /\ n = [p \in Readers |-> 0] /\ target = [p \in Readers |-> 0]
  /\ killed = [p \in Readers |-> FALSE]

(* The device (external): a character arrives, or one has been sent. *)
Receive ==
  /\ ~rhr /\ rhr' = TRUE /\ irq' = TRUE
  /\ UNCHANGED <<cons, tx, busy, handler, procs>>

Sent ==
  /\ busy /\ busy' = FALSE /\ irq' = TRUE
  /\ UNCHANGED <<cons, tx, rhr, handler, procs>>

(* uartintr takes characters until there are no more, and then sends. *)
Claim ==
  /\ irq /\ hpc = "out"
  /\ irq' = FALSE /\ hpc' = "getc"
  /\ UNCHANGED <<cons, tx, rhr, busy, hc, echo, procs>>

(* The characters that ^U would erase, from e - 1 down to w or a newline. *)
Pending == (e - w) % M
At(i) == buf[(i % M) % Size]
Erased == CHOOSE k \in 0 .. Pending :
            /\ k = Pending \/ At(e - k - 1) = "nl"
            /\ \A j \in 1 .. k : At(e - j) # "nl"
Room == (e - r) % M < Size

(* uartgetc, and how often consoleintr calls consputc to echo. *)
Echo(c) ==
  CASE c = "^U" -> Erased
    [] c = "^H" -> IF e # w THEN 1 ELSE 0
    [] c = "^P" -> 0
    [] OTHER -> IF Room THEN 1 ELSE 0

uartgetc(c) ==
  /\ hpc = "getc" /\ rhr /\ lock = Free
  /\ lock' = Intr /\ rhr' = FALSE
  /\ hc' = (IF c = "cr" THEN "nl" ELSE c) /\ echo' = Echo(c) /\ hpc' = "cons"
  /\ UNCHANGED <<buf, r, w, e, tx, busy, irq, procs>>

NoCharReturns ==
  /\ hpc = "getc" /\ ~rhr /\ hpc' = "out"
  /\ UNCHANGED <<cons, tx, device, hc, echo, procs>>

NoChar ==
  /\ hpc = "getc" /\ ~rhr /\ hpc' = "start"
  /\ UNCHANGED <<cons, tx, device, hc, echo, procs>>

(* uartputc_sync waits for the device (the three characters that erase one *)
(* are one here).                                                          *)
consputc ==
  /\ hpc = "cons" /\ echo > 0 /\ ~busy
  /\ busy' = TRUE /\ echo' = echo - 1
  /\ UNCHANGED <<cons, tx, rhr, irq, hpc, hc, procs>>

(* wakeup of those that sleep at l. *)
WokenNobody(l, m) == pc
Woken(l, m) == [p \in DOMAIN pc |-> IF pc[p] = l THEN m ELSE pc[p]]

(* The end of the line, once the character at e is stored. *)
LineEndBefore == e
LineEnd == (e + 1) % M

Store(c) ==
  /\ buf' = [buf EXCEPT ![e % Size] = c] /\ e' = (e + 1) % M
  /\ IF c \in {"nl", "^D"} \/ (e + 1 - r) % M = Size
     THEN w' = LineEnd /\ pc' = Woken("read asleep", "read")
     ELSE UNCHANGED <<w, pc>>

consoleintr ==
  /\ hpc = "cons" /\ echo = 0
  /\ CASE hc = "^U" -> e' = (e - Erased) % M /\ UNCHANGED <<buf, w, pc>>
       [] hc = "^H" -> e' = (IF e # w THEN (e - 1) % M ELSE e) /\ UNCHANGED <<buf, w, pc>>
       [] hc \notin {"^U", "^H", "^P"} /\ Room -> Store(hc)
       [] OTHER -> UNCHANGED <<buf, w, e, pc>>
  /\ lock' = Free /\ hc' = None /\ hpc' = "getc"
  /\ UNCHANGED <<r, tx, device, echo, n, target, killed>>

(* uartstart: a character goes to the device if that is idle. *)
Empty == txw = txr
Full == txw = (txr + UART_TX_BUF_SIZE) % TxM

Start ==
  /\ hpc = "start"
  /\ IF Empty \/ busy
     THEN UNCHANGED <<txr, busy, pc>>
     ELSE /\ txr' = (txr + 1) % TxM /\ busy' = TRUE
          /\ pc' = Woken("put asleep", "put")
  /\ hpc' = "out"
  /\ UNCHANGED <<cons, txw, rhr, irq, hc, echo, n, target, killed>>

(* consolewrite passes each character to uartputc. *)
uartputc(p) ==
  /\ pc[p] \in {"user", "put"}
  /\ IF Full
     THEN pc' = [pc EXCEPT ![p] = "put asleep"] /\ UNCHANGED <<tx, busy>>
     ELSE /\ txw' = (txw + 1) % TxM
          /\ txr' = (IF busy THEN txr ELSE (txr + 1) % TxM)
          /\ pc' = [(IF busy THEN pc ELSE Woken("put asleep", "put")) EXCEPT ![p] = "user"]
          /\ busy' = TRUE
  /\ UNCHANGED <<cons, rhr, irq, handler, n, target, killed>>

(* consoleread: p waits for a line, *)
Read(p, k) ==
  /\ pc[p] = "user"
  /\ pc' = [pc EXCEPT ![p] = "read"]
  /\ n' = [n EXCEPT ![p] = k] /\ target' = [target EXCEPT ![p] = k]
  /\ UNCHANGED <<cons, tx, device, handler, killed>>

Return(p) ==
  /\ pc' = [pc EXCEPT ![p] = "user"] /\ lock' = Free
  /\ n' = [n EXCEPT ![p] = 0] /\ target' = [target EXCEPT ![p] = 0]
  /\ killed' = [killed EXCEPT ![p] = FALSE]

ReadWait(p) ==
  /\ pc[p] = "read" /\ lock \in {Free, p} /\ n[p] > 0 /\ r = w
  /\ IF killed[p] THEN Return(p)
     ELSE lock' = p /\ pc' = [pc EXCEPT ![p] = "read sleep"] /\ UNCHANGED <<n, target, killed>>
  /\ UNCHANGED <<buf, r, w, e, tx, device, handler>>

Sleep(p) ==
  /\ pc[p] = "read sleep" /\ pc' = [pc EXCEPT ![p] = "read asleep"]
  /\ lock' = Free
  /\ UNCHANGED <<buf, r, w, e, tx, device, handler, n, target, killed>>

(* and takes it character by character.  ^D is left for the next call when *)
(* this one has something to return.  ok says that copyout succeeds.       *)
consoleread(p, ok) ==
  LET c == At(r) IN
  /\ pc[p] = "read" /\ lock \in {Free, p} /\ n[p] > 0 /\ r # w
  /\ r' = (IF c = "^D" /\ n[p] < target[p] THEN r ELSE (r + 1) % M)
  /\ IF c \in {"^D", "nl"} \/ ~ok \/ n[p] = 1
     THEN Return(p)
     ELSE lock' = p /\ n' = [n EXCEPT ![p] = @ - 1] /\ UNCHANGED <<pc, target, killed>>
  /\ UNCHANGED <<buf, w, e, tx, device, handler>>

(* kill; the process exits when it returns, and another takes its place. *)
kill(p) ==
  /\ pc[p] # "user" /\ ~killed[p]
  /\ killed' = [killed EXCEPT ![p] = TRUE]
  /\ pc' = [pc EXCEPT ![p] = IF @ = "read asleep" THEN "read" ELSE @]
  /\ UNCHANGED <<cons, tx, device, handler, n, target>>

Handler == Claim \/ (\E c \in Typed : uartgetc(c)) \/ NoChar \/ consputc \/ consoleintr \/ Start

Next ==
  \/ Receive \/ Sent \/ Handler
  \/ \E p \in Writers : uartputc(p)
  \/ \E p \in Readers :
       \/ \E k \in Counts : Read(p, k)
       \/ ReadWait(p) \/ Sleep(p) \/ kill(p)
       \/ \E ok \in BOOLEAN : consoleread(p, ok)

(* The device sends what it is given, a CPU takes the interrupt, and the   *)
(* scheduler runs the processes that hold a lock.                          *)
Fairness ==
  /\ WF_vars(Sent) /\ WF_vars(Handler)
  /\ \A p \in Readers : WF_vars(Sleep(p) \/ ReadWait(p) \/ \E ok \in BOOLEAN : consoleread(p, ok))
  /\ \A p \in Writers : WF_vars(pc[p] = "put" /\ uartputc(p))
Spec == Init /\ [][Next]_vars /\ Fairness
-----------------------------------------------------------------------------
(* A reader sleeps only while no line is complete, and a writer only while *)
(* the ring is full.                                                       *)
NoLostWakeup ==
  /\ \A p \in Readers : pc[p] = "read asleep" => r = w
  /\ \A p \in Writers : pc[p] = "put asleep" => Full

Chars(i, j) == [k \in 1 .. (j - i) % M |-> At(i + k - 1)]
T == INSTANCE Tty WITH Char <- {"x", "nl", "^D"}, edit <- Chars(w, e), lines <- Chars(r, w)

(* The buffer implements the line discipline, also when r, w and e wrap    *)
(* around: what is edited is never what a reader may take, and the ring    *)
(* never holds more than its size.                                         *)
IsTty == T!Spec

(* Output goes on unless typing never pauses: as long as processes wait in *)
(* uartputc, characters of theirs get into the ring.  Whose, the code does *)
(* not say: uartstart wakes all of them for one place.                     *)
Waiting == \E p \in Writers : pc[p] \in {"put", "put asleep"}
OutputGoesOn == <>[]~rhr => []<>~Waiting \/ []<><<txw' # txw>>_txw
=============================================================================
