------------------------------ MODULE UartAdapter ------------------------------
(***************************************************************************)
(* The settings of a serial line (uart_adapter.c).  A setter reads the     *)
(* tty's termios, changes some of its flags and writes it back, with no    *)
(* lock between the two ioctls: of two setters that overlap the later      *)
(* write wins whole, and LineIsAsked excepts that.                         *)
(*                                                                         *)
(* The getters do not invert the setters: the baud rate is looked up in    *)
(* flags with all of CBAUD set, so it is always the default; flow control  *)
(* is looked up in flags cut to sixteen bits, so it is never on; any       *)
(* parity is called odd.  LineIsAsked says what of an answer can be used.  *)
(***************************************************************************)
EXTENDS Naturals

CONSTANTS Clients,  \* threads that use the host
          Asks,     \* the attributes they ask for, records of UartAttrs
          Bauds     \* the rates they ask for

\* flow is cts or rts: a setter wants either, the getter has one answer for both.
UartAttrs == [bits : 5 .. 8, flow : BOOLEAN, parity : {"none", "odd", "even"}, stop : {1, 2}]

ASSUME UartAssumption == Asks \subseteq UartAttrs /\ Bauds \subseteq Nat

VARIABLES termios,  \* the tty's: the fields of c_cflag
          client,   \* per thread: the copy it has read, and what it is asked for
          asked,    \* what was last asked for with success
          lost,     \* history: a copy that was out of date has been written back
          unsure    \* history: the last SetBaud that mattered told the wrong result

uartVars == <<termios, client, asked, lost, unsure>>

NoCopy == [pc |-> "idle"]

\* The flags a tty is made with, and the settings they stand for.
StdTermios == [baud |-> 9600, bits |-> 8, crtscts |-> FALSE, parenb |-> FALSE, parodd |-> FALSE, cstopb |-> FALSE]
StdSettings == [baud |-> 9600, attr |-> [bits |-> 8, flow |-> FALSE, parity |-> "none", stop |-> 1]]

UartInit ==
  /\ termios = StdTermios /\ asked = StdSettings
  /\ client = [c \in Clients |-> NoCopy] /\ lost = FALSE /\ unsure = FALSE

-----------------------------------------------------------------------------
(* The conversions. *)
KnownBauds == {1800, 2400, 4800, 9600, 19200, 38400, 57600, 115200, 230400, 460800, 500000, 576000, 921600}

BaudRateToCflag(b) == IF b \in KnownBauds THEN b ELSE 9600

WithBaud(t, b) == [t EXCEPT !.baud = BaudRateToCflag(b)]

\* Fault: even parity does not clear PARODD.
WithAttrKeepsOdd(t, a) ==
  [t EXCEPT !.bits = a.bits, !.crtscts = a.flow, !.cstopb = a.stop = 2,
            !.parenb = a.parity # "none", !.parodd = a.parity = "odd" \/ (a.parity = "even" /\ @)]

WithAttr(t, a) ==
  [t EXCEPT !.bits = a.bits, !.crtscts = a.flow, !.cstopb = a.stop = 2,
            !.parenb = a.parity # "none", !.parodd = a.parity = "odd"]

\* What the line does, which is what a peer must be set to.
OnTheLine(t) ==
  [bits |-> t.bits, flow |-> t.crtscts, stop |-> IF t.cstopb THEN 2 ELSE 1,
   parity |-> IF ~t.parenb THEN "none" ELSE IF t.parodd THEN "odd" ELSE "even"]

CflagToBaudRate(t) == 9600

\* The argument is an unsigned short, and CRTSCTS is bit 31.
CtsRtsToAttr(t) == FALSE

\* CSToAttr looks at the flags outside CSIZE, of which CREAD is always set.
GetAttribute(t) ==
  [bits |-> 8, flow |-> CtsRtsToAttr(t), stop |-> IF t.cstopb THEN 2 ELSE 1,
   parity |-> IF t.parenb \/ t.parodd THEN "odd" ELSE "none"]

-----------------------------------------------------------------------------
(* UartAdapterSetBaud and UartAdapterSetAttribute. *)
Tcgets(c) ==
  /\ client[c] = NoCopy
  /\ \/ \E b \in Bauds : client' = [client EXCEPT ![c] = [pc |-> "baud", copy |-> termios, ask |-> b]]
     \/ \E a \in Asks : client' = [client EXCEPT ![c] = [pc |-> "attr", copy |-> termios, ask |-> a]]
  /\ UNCHANGED <<termios, asked, lost, unsure>>

\* SetBaud tells the result of TIOCGSERIAL and TIOCSSERIAL, whatever that of TCSETS.
TcsetsBaud(c) ==
  /\ client[c].pc = "baud" /\ client' = [client EXCEPT ![c] = NoCopy]
  /\ \E set, told \in BOOLEAN :
       /\ termios' = IF set THEN WithBaud(client[c].copy, client[c].ask) ELSE termios
       /\ asked' = IF told THEN [asked EXCEPT !.baud = client[c].ask] ELSE asked
       /\ lost' = (lost \/ (set /\ client[c].copy # termios))
       /\ unsure' = (set # told \/ (unsure /\ ~set))

TcsetsAttr(c) ==
  /\ client[c].pc = "attr"
  /\ termios' = WithAttr(client[c].copy, client[c].ask)
  /\ asked' = [asked EXCEPT !.attr = client[c].ask] /\ UNCHANGED unsure
  /\ lost' = (lost \/ client[c].copy # termios) /\ client' = [client EXCEPT ![c] = NoCopy]

\* SetAttribute returns the error of TCSETS.
TcsetsFails(c) ==
  /\ client[c].pc = "attr" /\ client' = [client EXCEPT ![c] = NoCopy]
  /\ UNCHANGED <<termios, asked, lost, unsure>>

UartNext == \E c \in Clients : Tcgets(c) \/ TcsetsBaud(c) \/ TcsetsAttr(c) \/ TcsetsFails(c)

UartSpec == UartInit /\ [][UartNext]_uartVars

-----------------------------------------------------------------------------
(* After any sequence of settings by any threads the line has the          *)
(* attributes that were last asked for with success, and GetAttribute tells *)
(* its stop bits and whether there is a parity (of its flow control it      *)
(* tells nothing) - unless a setter wrote back a copy that another had made *)
(* out of date.  It has the rate last asked for with success too, unless    *)
(* SetBaud called a TCSETS that failed a success or one that was done a     *)
(* failure, and no SetBaud has been done and told since.                    *)
LineIsAsked ==
  lost \/ LET told == GetAttribute(termios) IN
    /\ unsure \/ termios.baud = BaudRateToCflag(asked.baud)
    /\ OnTheLine(termios) = asked.attr /\ told.stop = asked.attr.stop
    /\ (told.parity = "none") = (asked.attr.parity = "none")
==============================================================================
