------------------------------ MODULE SpiLink ------------------------------
(***************************************************************************)
(* Two of these devices on one SPI bus, app/driver/spi.c: a master, which  *)
(* gives its SPI module one transfer at a time and does not wait for its   *)
(* end, and a slave, whose interrupt handler takes what came and tells the *)
(* master by two lines, GPIO0 (it may write) and GPIO2 (it may read).  A   *)
(* display and other devices may hang on the same master.  Nothing in this *)
(* application calls the driver; the slave's data is prepared as the test  *)
(* code of the file does it.                                               *)
(*                                                                         *)
(* The 32 bytes of each of the slave's buffers are one.                    *)
(***************************************************************************)
EXTENDS Integers

CONSTANT Sent    \* bound: what is sent; a byte is below 256

ASSUME SpiAssumption == Sent \subseteq 0..511

VARIABLES
    user,      \* master, SPI_USER: which of MOSI and MISO follow the command
    user2,     \* SPI_USER2: the command
    w0,        \* SPI_W0: the data buffer
    spi_usr,   \* SPI_USR: a transfer is under way
    request,     \* the last call, [kind, data]
    sending,   \* the call the transfer under way, or the last one, is for
    step,      \* where it is: "wait", "reply", or it has "returned"
    temp,      \* what spi_byte_read_espslave read
    spoiled,   \* history: the transfer under way met an initialisation
    slv,       \* slave, SPI_SLAVE: which of WR_BUF_DONE and RD_BUF_DONE are set
    w_in, w_out,  \* its SPI_W0 and SPI_W8
    regvalue,  \* what the handler has read of slv
    isr,       \* the step of spi_slave_isr_handler that is next, or "out"
    miso,      \* the step of set_miso_data that is next, or "out"
    spi_data, gpio0, gpio2,
    \* history
    written,   \* the last byte written to the slave
    unread,    \* w_out was prepared, and not sent since
    crossed    \* the master looked at a line while the slave was busy with the
               \* last transfer, or initialised its module again during a write

masterVars == <<user, user2, w0, spi_usr, request, sending, step, temp, spoiled>>
handlerVars == <<regvalue, isr, spi_data, gpio0>>
slaveVars == <<slv, w_in, w_out, miso, gpio2, unread, handlerVars>>
spiVars == <<masterVars, slaveVars, written, crossed>>

Kind == {"byte", "lcd", "write", "read"}

Word == 0..65535    \* a command has 16 bits

SpiTypeOK ==
    /\ user \subseteq {"MOSI", "MISO"}
    /\ user2 \in Word /\ w0 \in 0..255 /\ spi_usr \in BOOLEAN
    /\ request \in [kind : Kind, data : 0..511] /\ sending \in [kind : Kind, data : 0..511]
    /\ step \in {"wait", "reply", "returned"}
    /\ temp \in 0..255
    /\ slv \subseteq {"WR", "RD"} /\ regvalue \subseteq {"WR", "RD"}
    /\ w_in \in 0..255 /\ w_out \in 0..255 /\ spi_data \in 0..255
    /\ isr \in {"out", "clear", "write", "copy", "read"}
    /\ miso \in {"out", "fill", "raise"}
    /\ gpio0 \in {0, 1} /\ gpio2 \in {0, 1}
    /\ written \in 0..255 /\ unread \in BOOLEAN /\ crossed \in BOOLEAN /\ spoiled \in BOOLEAN

\* spi_master_init, on registers that ask for no phase
MasterInit ==
    /\ user = {"MOSI"} /\ user2 = 0 /\ w0 = 0 /\ spi_usr = FALSE
    /\ request = [kind |-> "byte", data |-> 0] /\ sending = request
    /\ step = "returned" /\ temp = 0 /\ spoiled = FALSE

\* spi_slave_init: no cause is set, and the handler is installed.
SlaveInit ==
    /\ slv = {} /\ w_in = 0 /\ w_out = 0
    /\ regvalue = {} /\ isr = "out" /\ miso = "out" /\ spi_data = 0

\* gpio_init: the master may write, and has nothing to read.
GpioInit == gpio0 = 1 /\ gpio2 = 0

SpiInit == /\ MasterInit /\ SlaveInit /\ GpioInit
           /\ written = 0 /\ unread = FALSE /\ crossed = FALSE

-----------------------------------------------------------------------------
(* The master: spi_mast_byte_write, spi_lcd_9bit_write,                    *)
(* spi_byte_write_espslave and spi_byte_read_espslave                      *)

\* Mutant: the phases of the transfer before are not cleared.
PhasesKept(kind) ==
    CASE kind = "byte" -> {}
      [] kind = "lcd" -> user
      [] kind = "write" -> user \cup {"MOSI"}
      [] kind = "read" -> user \cup {"MISO"}

\* What each makes of the phases; spi_lcd_9bit_write leaves them.
Phases(kind) ==
    CASE kind = "byte" -> {}
      [] kind = "lcd" -> user
      [] kind = "write" -> {"MOSI"}
      [] kind = "read" -> {"MISO"}

\* Mutant: the lowest bit is not masked.
CommandWide(kind, data) == IF kind = "lcd" THEN data \div 2 + 32768 * data ELSE data

\* Nine bits are a byte of the upper eight, and bit 15.
Command(kind, data) ==
    CASE kind = "byte" -> data
      [] kind = "lcd" -> data \div 2 + 32768 * (data % 2)
      [] kind = "write" -> 4
      [] kind = "read" -> 6

SlaveBusy == spi_usr \/ slv # {} \/ isr # "out"

\* The master keeps to the slave's lines.
SpiCall ==
    /\ step = "returned"
    /\ \E kind \in Kind, data \in Sent :
           /\ kind # "lcd" => data < 256
           /\ kind = "write" => gpio0 = 1
           /\ kind = "read" => gpio2 = 1
           /\ request' = [kind |-> kind, data |-> data]
    /\ step' = "wait"
    /\ crossed' = (crossed \/ (request'.kind \in {"write", "read"} /\ SlaveBusy))
    /\ UNCHANGED <<user, user2, w0, spi_usr, sending, temp, spoiled, slaveVars, written>>

\* Mutant: the transfer before is not waited for.
AvailableAlways == TRUE

Available == ~spi_usr

\* The wait is over, and the transfer starts.
Transfer ==
    /\ step = "wait" /\ Available
    /\ user' = Phases(request.kind)
    /\ user2' = Command(request.kind, request.data)
    /\ sending' = request
    /\ spi_usr' = TRUE
    /\ IF request.kind = "write"
       THEN w0' = request.data /\ written' = request.data
       ELSE UNCHANGED <<w0, written>>
    /\ step' = IF request.kind = "read" THEN "reply" ELSE "returned"
    /\ spoiled' = FALSE
    /\ UNCHANGED <<request, temp, slaveVars, crossed>>

\* The end of spi_byte_read_espslave
Reply ==
    /\ step = "reply" /\ Available
    /\ temp' = w0
    /\ step' = "returned"
    /\ UNCHANGED <<user, user2, w0, spi_usr, request, sending, spoiled, slaveVars, written, crossed>>

\* spi_master_init again, which adds a data phase, or spi_lcd_mode_init, which
\* leaves the phases as they are.  Both write the clock, and neither waits for the
\* end of a transfer.
Reinit ==
    /\ step = "returned"
    /\ user' \in {user, user \cup {"MOSI"}}
    /\ spoiled' = spi_usr
    /\ crossed' = (crossed \/ (spi_usr /\ sending.kind = "write"))
    /\ UNCHANGED <<user2, w0, spi_usr, request, sending, step, temp, slaveVars, written>>

-----------------------------------------------------------------------------
(* The bus *)

\* What the other end takes the command for
Carried == IF sending.kind = "lcd" THEN 2 * (user2 % 256) + user2 \div 32768 ELSE user2

\* A transfer ends: the slave's buffers and causes are set, or it was for others.
\* A write whose clock changed on the way may reach the slave or not.
Transferred ==
    /\ spi_usr
    /\ spi_usr' = FALSE
    /\ CASE user = {"MOSI"} /\ user2 = 4 /\ sending.kind = "write" ->
                /\ \/ w_in' = w0 /\ slv' = slv \cup {"WR"}
                   \/ spoiled /\ UNCHANGED <<w_in, slv>>
                /\ UNCHANGED <<w0, unread>>
         [] user = {"MISO"} /\ user2 = 6 /\ sending.kind = "read" ->
                /\ w0' = w_out /\ slv' = slv \cup {"RD"}
                /\ unread' = FALSE
                /\ UNCHANGED w_in
         [] OTHER -> UNCHANGED <<w0, w_in, slv, unread>>
    /\ UNCHANGED <<user, user2, request, sending, step, temp, spoiled, w_out, miso, gpio2,
                   handlerVars, written, crossed>>

-----------------------------------------------------------------------------
(* The slave: spi_slave_isr_handler, whose order of register accesses      *)
(* decides what it misses                                                  *)

IsrEnter ==
    /\ isr = "out" /\ slv # {}
    /\ regvalue' = slv
    /\ isr' = "clear"
    /\ UNCHANGED <<masterVars, slv, w_in, w_out, miso, spi_data, gpio0, gpio2, unread,
                   written, crossed>>

\* All causes are cleared, also one that was set since.
IsrClear ==
    /\ isr = "clear"
    /\ slv' = {}
    /\ isr' = IF "WR" \in regvalue THEN "write" ELSE "read"
    /\ UNCHANGED <<masterVars, w_in, w_out, miso, regvalue, spi_data, gpio0, gpio2, unread,
                   written, crossed>>

IsrWrite ==
    /\ isr = "write"
    /\ gpio0' = 0
    /\ isr' = "copy"
    /\ UNCHANGED <<masterVars, slv, w_in, w_out, miso, regvalue, spi_data, gpio2, unread,
                   written, crossed>>

\* Mutant: the loop over the data registers ends one early.
IsrCopyNone ==
    /\ isr = "copy"
    /\ gpio0' = 1
    /\ isr' = "read"
    /\ UNCHANGED <<masterVars, slv, w_in, w_out, miso, regvalue, spi_data, gpio2, unread,
                   written, crossed>>

IsrCopy ==
    /\ isr = "copy"
    /\ spi_data' = w_in
    /\ gpio0' = 1
    /\ isr' = "read"
    /\ UNCHANGED <<masterVars, slv, w_in, w_out, miso, regvalue, gpio2, unread,
                   written, crossed>>

\* Mutant: the line stays high.
IsrReadHigh ==
    /\ isr = "read"
    /\ isr' = "out"
    /\ UNCHANGED <<masterVars, slv, w_in, w_out, miso, regvalue, spi_data, gpio0, gpio2,
                   unread, written, crossed>>

IsrRead ==
    /\ isr = "read"
    /\ gpio2' = IF "RD" \in regvalue THEN 0 ELSE gpio2
    /\ isr' = "out"
    /\ UNCHANGED <<masterVars, slv, w_in, w_out, miso, regvalue, spi_data, gpio0, unread,
                   written, crossed>>

\* set_miso_data, which the handler may interrupt
MisoEnter ==
    /\ miso = "out" /\ isr = "out" /\ gpio2 = 0
    /\ miso' = "fill"
    /\ UNCHANGED <<masterVars, slv, w_in, w_out, gpio2, unread, handlerVars, written, crossed>>

MisoFill ==
    /\ miso = "fill" /\ isr = "out"
    /\ \E byte \in Sent : byte < 256 /\ w_out' = byte
    /\ unread' = TRUE
    /\ miso' = "raise"
    /\ UNCHANGED <<masterVars, slv, w_in, gpio2, handlerVars, written, crossed>>

MisoRaise ==
    /\ miso = "raise" /\ isr = "out"
    /\ gpio2' = 1
    /\ miso' = "out"
    /\ UNCHANGED <<masterVars, slv, w_in, w_out, unread, handlerVars, written, crossed>>

SpiNext == \/ SpiCall \/ Transfer \/ Reply \/ Reinit
           \/ Transferred
           \/ IsrEnter \/ IsrClear \/ IsrWrite \/ IsrCopy \/ IsrRead
           \/ MisoEnter \/ MisoFill \/ MisoRaise

SpiSpec == SpiInit /\ [][SpiNext]_spiVars

-----------------------------------------------------------------------------
(* Properties *)

\* No call that sends changes a register of a transfer before it is over, though
\* none waits for its own end.  Only the initialisations do, which wait for nothing:
\* they may add a data phase to a transfer under way, and never change its command
\* or its data.
RegistersHeld ==
    [][spi_usr /\ spi_usr' => UNCHANGED <<user2, w0>> /\ (~spoiled' => UNCHANGED user)]_spiVars

\* What goes over the wire is what the call asked for, whatever the calls
\* before have left in the registers, unless it met an initialisation: that gives a
\* byte a second one.  (A display also gets the data phase of a write before:
\* neither spi_lcd_mode_init nor spi_lcd_9bit_write clears it.)
FrameIsAsked ==
    spi_usr =>
        CASE sending.kind = "byte" -> (spoiled \/ user = {}) /\ Carried = sending.data
          [] sending.kind = "lcd" -> Carried = sending.data
          [] sending.kind = "write" -> user = {"MOSI"} /\ user2 = 4 /\ w0 = sending.data
          [] sending.kind = "read" -> user = {"MISO"} /\ user2 = 6

\* Once the handler is through, the slave has the byte last written - unless the
\* master looked at the lines before it was, when they do not yet tell of the last
\* transfer: a cause that is set between the reading of SPI_SLAVE and its clearing
\* is lost; or changed the clock of a write.
WrittenIsTaken ==
    ~crossed /\ ~SlaveBusy => spi_data = written

\* GPIO2 is up only for data that was prepared and not read before: each
\* preparation is read once, while set_miso_data and the handler both move it.
LineTellsUnread ==
    ~crossed /\ ~SlaveBusy /\ miso = "out" => (gpio2 = 1 <=> unread)

\* The handler, set_miso_data and the master keep in step by the two lines.
SlaveInStep == WrittenIsTaken /\ LineTellsUnread
=============================================================================
