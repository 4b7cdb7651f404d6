------------------------------ MODULE ComPort ------------------------------
(***************************************************************************)
(* The serial port: uart/comport.cpp over uart.c and accesstermios.c.  Of  *)
(* struct termios it is c_cflag that the program fills in and reads; a     *)
(* record stands for its bit fields.  Everything else in it is cleared.    *)
(*                                                                         *)
(* The devices and the calls that the system may refuse are external.      *)
(***************************************************************************)
EXTENDS Integers

CONSTANTS
  Paths,       \* the devices
  NotOpen,     \* the file descriptor -1; another one is its path
  Settings     \* the arguments that Set() is called with

ASSUME PortAssumption == NotOpen \notin Paths

VARIABLES
  fd,
  tty,         \* c_cflag of each device
  nonblock,    \* O_NONBLOCK of the open file
  mode485,     \* the devices that have been put into RS-485 mode
  asked        \* history: the last arguments that Set() took for each device

port == <<fd, tty, nonblock, mode485, asked>>

Rates == {1200, 2400, 4800, 9600, 19200, 38400, 57600, 115200}
Cleared ==                               \* bzero(&tmios)
  [CBAUD |-> 0, CSIZE |-> 5, CSTOPB |-> FALSE, PARENB |-> FALSE,
   PARODD |-> FALSE, CREAD |-> FALSE, CRTSCTS |-> FALSE]

speed_to_baud(speed) == IF speed \in Rates THEN speed ELSE 9600

set_parity_KeepOdd(s, parity) ==         \* mutant: 'O' and 'E' set PARENB only
  [s EXCEPT !.PARENB = parity # "N"]
set_parity(s, parity) ==
  IF parity = "N" THEN [s EXCEPT !.PARENB = FALSE]
  ELSE IF parity \in {"O", "E"} THEN [s EXCEPT !.PARENB = TRUE, !.PARODD = parity = "O"]
  ELSE s

set_bsize(s, bsize) == [s EXCEPT !.CSIZE = IF bsize \in 5 .. 8 THEN bsize ELSE 5]
set_stop(s, stop) == [s EXCEPT !.CSTOPB = stop # 1]

(* Set() knows a parity by its number (here a letter too) or its letter. *)
Letter(parity) ==
  IF parity \in {"0", "n", "N"} THEN "N"
  ELSE IF parity \in {"1", "o", "O"} THEN "O"
  ELSE IF parity \in {"2", "e", "E"} THEN "E" ELSE parity

(* What uart_config() hands to the device. *)
Config(a) ==
  LET s == set_stop(set_bsize(set_parity(
             [Cleared EXCEPT !.CBAUD = speed_to_baud(a.baud)], Letter(a.parity)),
             a.bsize), a.stop)
  IN  [s EXCEPT !.CREAD = TRUE, !.CRTSCTS = FALSE]

get_speed(s) == IF s.CBAUD \in Rates THEN s.CBAUD ELSE 0
get_parity(s) == IF s.PARENB THEN IF s.PARODD THEN "O" ELSE "E" ELSE "N"
get_bsize(s) == s.CSIZE
get_stop(s) == IF s.CSTOPB THEN 2 ELSE 1

-----------------------------------------------------------------------------
PortInit ==
  /\ fd = NotOpen /\ tty = [p \in Paths |-> Cleared]
  /\ nonblock = FALSE /\ mode485 = {} /\ asked = [p \in Paths |-> << >>]

(* A port that is open stays with its device, whatever path is given; this *)
(* and an open() that fails change nothing.                                *)
Open(path) ==
  /\ fd = NotOpen
  /\ fd' = path /\ nonblock' = TRUE
  /\ UNCHANGED <<tty, mode485, asked>>

(* tcsetattr() goes through; otherwise, or without a device, nothing is    *)
(* changed.                                                                *)
Set(a) ==
  /\ fd # NotOpen
  /\ tty' = [tty EXCEPT ![fd] = Config(a)]
  /\ asked' = [asked EXCEPT ![fd] = <<a>>]
  /\ UNCHANGED <<fd, nonblock, mode485>>

Block(b) ==
  /\ fd # NotOpen /\ nonblock' = ~b
  /\ UNCHANGED <<fd, tty, mode485, asked>>

(* Whichever mode is asked for. *)
SetMode ==
  /\ fd # NotOpen /\ mode485' = mode485 \cup {fd}
  /\ UNCHANGED <<fd, tty, nonblock, asked>>

Close ==
  /\ fd # NotOpen
  /\ fd' = NotOpen /\ nonblock' = FALSE
  /\ UNCHANGED <<tty, mode485, asked>>

PortNext ==
  \/ \E p \in Paths : Open(p)
  \/ \E a \in Settings : Set(a)
  \/ \E b \in BOOLEAN : Block(b)
  \/ SetMode \/ Close

(* The arguments of OpenCom() and SetCom() in test/bacnet.cpp. *)
Ready == fd # NotOpen /\ nonblock
         /\ asked[fd] = <<[baud |-> 9600, parity |-> "0", bsize |-> 8, stop |-> 1]>>

-----------------------------------------------------------------------------
Supported(a) ==
  a.baud \in Rates /\ a.bsize \in 5 .. 8 /\ a.stop \in {1, 2}
    /\ Letter(a.parity) \in {"N", "O", "E"}

(* The getters read back from a device what Set() was last asked for       *)
(* there, whatever it was set to before: no field of c_cflag is left over  *)
(* from an earlier call, and none is spoilt by the setting of another.     *)
SettingsHold ==
  \A p \in Paths, a \in Settings : asked[p] = <<a>> /\ Supported(a) =>
    /\ get_speed(tty[p]) = a.baud /\ get_bsize(tty[p]) = a.bsize
    /\ get_stop(tty[p]) = a.stop /\ get_parity(tty[p]) = Letter(a.parity)

=============================================================================
