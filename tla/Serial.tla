-------------------------------- MODULE Serial ------------------------------
(***************************************************************************)
(* The serial port, src/libs/serial.c, and the log lines that go through   *)
(* it, include/libs/log.h.                                                 *)
(*                                                                         *)
(* Two actors: the processor, which polls the port's status and writes     *)
(* bytes, and the port, which takes its time to send what it was given and *)
(* drops a byte that finds no room.  A log line is a label, the value if   *)
(* there is one, and "\n"; a label or a value counts as one byte.          *)
(***************************************************************************)
EXTENDS Integers, Sequences, SequencesExt

CONSTANTS
  LOG_LEVEL,   \* the level the kernel is compiled for
  FIFO_SIZE    \* bytes the port holds before it drops some

LOG_INFO  == 3
LOG_DEBUG == 4
LOG_TRACE == 5

ASSUME SerialAssumption == LOG_LEVEL \in 0 .. 5 /\ FIFO_SIZE \in Nat \ {0}

VARIABLES
  serial_ready,
  fifo,    \* what the port holds
  wire,    \* what it has sent
  empty,   \* what tx_empty has returned, until a byte is written
  todo,    \* the bytes of the log line at hand not yet written
  logged   \* the lines the kernel has asked for

serialVars == <<serial_ready, fifo, wire, empty, todo, logged>>

SerialInit ==
  /\ serial_ready = FALSE
  /\ fifo = << >> /\ wire = << >> /\ empty = FALSE
  /\ todo = << >> /\ logged = << >>

\* serial_init clears the port's buffer along with the rest of its setup.
serial_init ==
  /\ serial_ready' = TRUE
  /\ fifo' = << >>
  /\ UNCHANGED <<wire, empty, todo, logged>>

\* What serial_puts writes for a line: "\r" goes before every "\n".
Bytes(line) ==
  FlattenSeq([i \in DOMAIN line |-> IF line[i] = "\n" THEN <<"\r", "\n">>
                                                      ELSE <<line[i]>>])

\* LOG_MSG, LOG_HEX and LOG_DEC: the line, if its level is compiled in; the
\* bytes go nowhere before serial_init.
LOG(level, line) ==
  LET said == IF level <= LOG_LEVEL THEN line ELSE << >>
  IN  /\ logged' = logged \o said
      /\ todo' = IF serial_ready THEN Bytes(said) ELSE << >>
      /\ UNCHANGED <<serial_ready, fifo, wire, empty>>

-----------------------------------------------------------------------------

\* The status bit that says that the port has received something.
StatusBit_DataReady == FALSE

\* The bit of the line status that tx_empty looks at.
StatusBit == fifo = << >>

\* serial_putc's wait: one reading of the status.
tx_empty ==
  /\ todo # << >> /\ ~empty
  /\ empty' = StatusBit
  /\ UNCHANGED <<serial_ready, fifo, wire, todo, logged>>

\* serial_putc without its wait.
serial_putc_Blind ==
  /\ todo # << >>
  /\ fifo' = IF Len(fifo) < FIFO_SIZE THEN Append(fifo, Head(todo)) ELSE fifo
  /\ todo' = Tail(todo)
  /\ empty' = FALSE
  /\ UNCHANGED <<serial_ready, wire, logged>>

\* serial_putc's write, once the wait is over.
serial_putc ==
  /\ todo # << >> /\ empty
  /\ fifo' = IF Len(fifo) < FIFO_SIZE THEN Append(fifo, Head(todo)) ELSE fifo
  /\ todo' = Tail(todo)
  /\ empty' = FALSE
  /\ UNCHANGED <<serial_ready, wire, logged>>

\* The port sends a byte.
Transmit ==
  /\ fifo # << >>
  /\ wire' = Append(wire, Head(fifo))
  /\ fifo' = Tail(fifo)
  /\ UNCHANGED <<serial_ready, empty, todo, logged>>

-----------------------------------------------------------------------------

\* A character as a terminal expects it: a line ends in "\r\n".
Sent(c) == IF c = "\n" THEN <<"\r", c>> ELSE <<c>>

\* The log, character by character.
OnTerminal(log) ==
  LET upto[n \in 0 .. Len(log)] ==
        IF n = 0 THEN << >> ELSE upto[n - 1] \o Sent(log[n])
  IN  upto[Len(log)]

(* What has been sent, what the port holds and what is still to be written *)
(* are together the log the kernel asked for: serial_putc gives the port   *)
(* no byte it has no room for (serial.c:33), and no line is logged before  *)
(* serial_init.                                                            *)
WireIsLog == wire \o fifo \o todo = OnTerminal(logged)
=============================================================================
