------------------------------ MODULE ChainableLed ------------------------------
(***************************************************************************)
(* Task 2 of prac 1.  control puts a colour into a message queue every two *)
(* seconds; rgb_thread takes it and sends it to the LED's driver chip bit  *)
(* by bit over a data and a clock pin.  The chip is modelled from how the  *)
(* code talks to it: it reads the data pin when the clock rises, waits for *)
(* 32 zeros, takes 32 bits from the next one on, and takes over the colour *)
(* if the check bits of the first byte are the inverse of the top bits of  *)
(* blue, green and red.                                                    *)
(***************************************************************************)
EXTENDS Integers, Sequences

colour_sequence == << \h000000, \h0000FF, \h00FF00, \h00FFFF,
                      \hFF0000, \hFF00FF, \hFFFF00, \hFFFFFF >>
QueueSize == 8
Bit == 0 .. 1

VARIABLES
    col_num,       (* next colour of control                                *)
    colour_msgq,   (* the message queue                                     *)
    sending,       (* rgb_thread: bits still to be sent                     *)
    ci, di,        (* clock and data pin                                    *)
    phase,         (* where send_byte is within a bit                       *)
    zeros, wordBits, (* the chip: zeros seen in a row, bits of a word         *)
    lit            (* the chip: the colour it shows                         *)

pins == <<ci, di, phase>>
chip == <<zeros, wordBits, lit>>
chainVars == <<col_num, colour_msgq, sending, pins, chip>>

Dark == -1
White == \hFFFFFF
ChainTypeOK ==
    /\ col_num \in 0 .. 7
    /\ colour_msgq \in Seq(0 .. White) /\ Len(colour_msgq) =< QueueSize
    /\ sending \in Seq(Bit) /\ Len(sending) =< 96
    /\ ci \in Bit /\ di \in Bit /\ phase \in {"unset", "data", "low", "high"}
    /\ zeros \in 0 .. 32 /\ wordBits \in Seq(Bit) /\ Len(wordBits) < 32
    /\ lit \in Dark .. White

ChainInit == /\ col_num = 0 /\ colour_msgq = << >> /\ sending = << >>
             /\ ci = 0 /\ di = 0 /\ phase = "unset"
             /\ zeros = 0 /\ wordBits = << >> /\ lit = Dark

-------------------------------------------------------------------------------

(* Both pins become active outputs, before any thread gets to run.         *)
ChainMain == /\ phase = "unset"
             /\ ci' = 1 /\ di' = 1 /\ phase' = "data"
             /\ UNCHANGED <<col_num, colour_msgq, sending, chip>>

(* The two seconds of control are long enough for a frame: 96 bits with    *)
(* two sleeps of 20 microseconds, which the kernel rounds up to ticks.     *)
ControlPut == /\ phase # "unset" /\ sending = << >> /\ colour_msgq = << >>
              /\ colour_msgq' = IF Len(colour_msgq) = QueueSize THEN colour_msgq
                                ELSE Append(colour_msgq, colour_sequence[col_num + 1])
              /\ col_num' = (col_num + 1) % 8
              /\ UNCHANGED <<sending, pins, chip>>

(* send_byte shifts the byte left and looks at the top bit.                *)
Weight == <<128, 64, 32, 16, 8, 4, 2, 1>>
SendByte(byte) == [i \in 1 .. 8 |-> (byte \div Weight[i]) % 2]

Top(byte)    == byte \div 128
Second(byte) == (byte \div 64) % 2
Inverted(bit) == 1 - bit

(* Mutant: a slip of copying, green's second bit is taken from blue.       *)
PrefixSlip(red, green, blue) ==
    128 + 64 + 32 * Inverted(Top(blue))  + 16 * Inverted(Second(blue))
             + 8  * Inverted(Top(green)) + 4  * Inverted(Second(blue))
             + 2  * Inverted(Top(red))   +      Inverted(Second(red))

Prefix(red, green, blue) ==
    128 + 64 + 32 * Inverted(Top(blue))  + 16 * Inverted(Second(blue))
             + 8  * Inverted(Top(green)) + 4  * Inverted(Second(green))
             + 2  * Inverted(Top(red))   +      Inverted(Second(red))

(* Mutant: a blank word is too short.                                      *)
BlankShort == [i \in 1 .. 15 |-> 0]

Blank == [i \in 1 .. 32 |-> 0]

SendRgbData(red, green, blue) ==
    Blank \o SendByte(Prefix(red, green, blue))
          \o SendByte(blue) \o SendByte(green) \o SendByte(red) \o Blank

RgbGet == /\ phase = "data" /\ sending = << >> /\ colour_msgq # << >>
          /\ LET colour == Head(colour_msgq)
             IN  sending' = SendRgbData((colour \div 65536) % 256,
                                        (colour \div 256) % 256, colour % 256)
          /\ colour_msgq' = Tail(colour_msgq)
          /\ UNCHANGED <<col_num, pins, chip>>

SetData == /\ phase = "data" /\ sending # << >>
           /\ di' = Head(sending)
           /\ sending' = Tail(sending)
           /\ phase' = "low"
           /\ UNCHANGED <<col_num, colour_msgq, ci, chip>>

ClkLow == /\ phase = "low"
          /\ ci' = 0
          /\ phase' = "high"
          /\ UNCHANGED <<col_num, colour_msgq, sending, di, chip>>

ChecksOut(bits) == /\ bits[1] = 1 /\ bits[2] = 1
                   /\ \A c \in 0 .. 2 : /\ bits[3 + 2 * c] = Inverted(bits[9 + 8 * c])
                                        /\ bits[4 + 2 * c] = Inverted(bits[10 + 8 * c])

(* The value of the byte that starts at bit first.                         *)
ByteAt(bits, first) ==
    128 * bits[first] + 64 * bits[first + 1] + 32 * bits[first + 2]
        + 16 * bits[first + 3] + 8 * bits[first + 4] + 4 * bits[first + 5]
        + 2 * bits[first + 6] + bits[first + 7]

ColourOf(bits) == ByteAt(bits, 25) * 65536 + ByteAt(bits, 17) * 256 + ByteAt(bits, 9)

(* What the chip does with a bit.                                          *)
ChipTakes(bit) ==
    IF wordBits = << >> /\ (bit = 0 \/ zeros < 32)
    THEN /\ zeros' = IF bit = 1 THEN 0 ELSE IF zeros < 32 THEN zeros + 1 ELSE 32
         /\ UNCHANGED <<wordBits, lit>>
    ELSE /\ zeros' = 0
         /\ IF Len(wordBits) < 31 THEN wordBits' = Append(wordBits, bit) /\ UNCHANGED lit
            ELSE /\ wordBits' = << >>
                 /\ lit' = IF ChecksOut(Append(wordBits, bit))
                           THEN ColourOf(Append(wordBits, bit)) ELSE lit

ClkHigh == /\ phase = "high"
           /\ ci' = 1
           /\ phase' = "data"
           /\ IF ci = 0 THEN ChipTakes(di) ELSE UNCHANGED chip
           /\ UNCHANGED <<col_num, colour_msgq, sending, di>>

Rgb == RgbGet \/ SetData \/ ClkLow \/ ClkHigh
ChainNext == ChainMain \/ ControlPut \/ Rgb
ChainSpec == ChainInit /\ [][ChainNext]_chainVars

-------------------------------------------------------------------------------

(* Bit by bit the chip is made to show the eight colours, each once, in    *)
(* the order of the table: no frame is refused, none misread.              *)
Place == IF lit = Dark THEN -1
         ELSE (CHOOSE i \in 1 .. 8 : colour_sequence[i] = lit) - 1
Wheel == INSTANCE ColourWheel WITH Colours <- 8, showing <- Place
ShowsTheWheel == Wheel!Spec

(* And the wheel goes on turning: each colour is shown again and again.    *)
Shows(i) == lit = colour_sequence[i]
WheelTurns == \A i \in 1 .. 8 : []<>Shows(i)
===============================================================================
