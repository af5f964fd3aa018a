----------------------------- MODULE FramePath ------------------------------
(***************************************************************************)
(* One frame at a time, from the command line of cansend through the       *)
(* registers of the controller, the bus, the registers of the controller   *)
(* at the other end, and the two filters, to a line of candump.            *)
(*                                                                         *)
(* A 32-bit can_id is a record of its three flags and its low 29 bits, a   *)
(* masked one a record of the flags and the set of the bits left.  A       *)
(* text is what the parser sees in it: the number before '#', how many     *)
(* characters it has, and the kind of data after it; a token of candump's  *)
(* command line is its two numbers, the characters of the first and the    *)
(* separator.  Access outside an array is not defined: the frame ends as a *)
(* "fault".                                                                *)
(***************************************************************************)
EXTENDS Integers, FiniteSetsExt, SequencesExt

CONSTANTS
    Texts,          \* command lines of cansend
    CommandLines,   \* filters and count of candump
    Filters,        \* CanMessageFilters an application may set
    BusFrames,      \* frames of other nodes
    Stack,          \* bytes an uninitialised variable may hold
    MaxFrames       \* bound on the frames

CanIds    == [eff : BOOLEAN, rtr : BOOLEAN, err : BOOLEAN, id : 0..(2^29 - 1)]
CanFrames == [can_id : CanIds, len : 0..255, data : [1..8 -> 0..255]]
Registers == [eff : BOOLEAN, rtr : BOOLEAN, len : 0..15, data : [0..11 -> 0..255]]

Digits == 0..16     \* of a hexadecimal number, or any other character
NotHex == 16

CmdTexts   == [id : CanIds, digits : 0..8,
               data : [kind : {"none", "rtr", "bytes"}, tokens : Seq(Seq(Digits))]]
CanFilters == [can_id : CanIds, can_mask : CanIds]

\* Parsers take any number of 32 bits; the length code on the bus has four.
ASSUME FramePathAssumption ==
    /\ Texts \subseteq CmdTexts
    /\ \A line \in CommandLines :
         line.count \in Nat /\ \A token \in Range(line.tokens) : {token.id, token.mask} \subseteq CanIds
    /\ \A f \in BusFrames : f \in CanFrames /\ f.len < 16
    /\ Stack \subseteq 0..255 /\ MaxFrames \in Nat

VARIABLES
    stage,          \* where the frame is
    text,           \* the last command line of cansend
    canFrame,       \* the frame, as a can_frame
    sent,           \* the frame as its sender wrote it
    tx, rx,         \* RxTxFrInf and RxTxIdData, to send and received
    filter,         \* canMessageFilter_ of the descriptor
    tokens,         \* the filters of candump's command line
    canFilters,     \* what candump made of them
    count,          \* candump -n, 0 if not given
    shown,          \* whether candump printed the frame
    frames          \* frames so far

vars == <<stage, text, canFrame, sent, tx, rx, filter, tokens, canFilters, count, shown, frames>>

NoId    == [eff |-> FALSE, rtr |-> FALSE, err |-> FALSE, id |-> 0]

BitsOf(n) == {bit \in 0..28 : (n \div 2^bit) % 2 = 1}
Masked(a, b) ==
    [eff |-> a.eff /\ b.eff, rtr |-> a.rtr /\ b.rtr, err |-> a.err /\ b.err,
     bits |-> BitsOf(a.id) \cap BitsOf(b.id)]

Flagged(canId) == canId.eff \/ canId.rtr \/ canId.err

-----------------------------------------------------------------------------
(***************************************************************************)
(* cansend: ParseCanFrame.                                                 *)
(***************************************************************************)

\* A token between dots is cut in pairs of digits; an odd last digit stands alone.
Pairs(token) ==
    [i \in 1..((Len(token) + 1) \div 2) |->
        IF 2 * i <= Len(token) THEN <<token[2 * i - 1], token[2 * i]>>
        ELSE <<token[2 * i - 1]>>]
Value(pair) == IF Len(pair) = 1 THEN pair[1] ELSE 16 * pair[1] + pair[2]

Id(t) == IF t.digits > 3 \/ Flagged(t.id) \/ t.id.id > 2^11 - 1
         THEN [t.id EXCEPT !.eff = TRUE] ELSE t.id

Filled(bytes, fill) == [i \in 1..8 |-> IF i <= Len(bytes) THEN bytes[i] ELSE fill]

\* What the parser may make of a text: nothing when it takes no length for it.  The
\* rest of the data is what the stack held; without data, the length is that too.
Parsed(id, lens, bytes) ==
    {[can_id |-> id, len |-> len, data |-> Filled(bytes, fill)] :
        len \in lens, fill \in Stack}

NoData(t) == Parsed(Id(t), Stack, <<>>)

Remote(t) ==
    LET digits == t.data.tokens[1]
        lens   == CASE digits = <<>>                    -> {0}
                    [] digits \in {<<d>> : d \in 0..8} -> Range(digits)
                    [] OTHER                            -> {}
    IN Parsed([Id(t) EXCEPT !.rtr = TRUE], lens, <<>>)

Data(t) ==
    LET values == FlattenSeq([i \in DOMAIN t.data.tokens |-> Pairs(t.data.tokens[i])])
        valid  == /\ \A token \in Range(t.data.tokens) : token # <<>>
                  /\ Len(values) <= 8
                  /\ \A pair \in Range(values) : NotHex \notin Range(pair)
        bytes  == [i \in DOMAIN values |-> Value(values[i])]
    IN IF valid THEN Parsed(Id(t), {Len(bytes)}, bytes) ELSE {}

\* Without a digit the separator is not read either, and may be '#' by chance.
ParseCanFrame(t) ==
    IF t.digits = 0 THEN NoData([t EXCEPT !.id = NoId])
    ELSE CASE t.data.kind = "none"  -> NoData(t)
           [] t.data.kind = "rtr"   -> Remote(t)
           [] t.data.kind = "bytes" -> Data(t)

-----------------------------------------------------------------------------
(***************************************************************************)
(* The registers.  Shifts are divisions; an extended identifier of 29 bits *)
(* stands at the top of four bytes, a standard one of 11 at the top of two *)
(***************************************************************************)

AlwaysTwo(eff)  == 2
DataOffset(eff) == IF eff THEN 4 ELSE 2

StandardBytes(id) == <<(id % 2^11) \div 2^3, (id % 2^3) * 2^5>>
ExtendedBytes(id) == <<id \div 2^21, (id \div 2^13) % 2^8, (id \div 2^5) % 2^8,
                       (id % 2^5) * 2^3>>
IdBytes(eff, id)  == IF eff THEN ExtendedBytes(id) ELSE StandardBytes(id)

StandardId(data) == data[0] * 2^3 + data[1] \div 2^5
ExtendedId(data) == data[0] * 2^21 + data[1] * 2^13 + data[2] * 2^5 + data[3] \div 2^3

\* Bytes put in the registers from an offset; the others keep what they held.
Put(data, bytes, offset) ==
    [i \in 0..11 |-> IF i - offset + 1 \in DOMAIN bytes THEN bytes[i - offset + 1]
                     ELSE data[i]]

Written(regs, f) ==
    LET eff == f.can_id.eff IN
    [eff |-> eff, rtr |-> f.can_id.rtr, len |-> f.len % 16,
     data |-> Put(Put(regs.data, IdBytes(eff, f.can_id.id), 0),
                  SubSeq(f.data, 1, Min({f.len, 8})), DataOffset(eff))]

\* What ReceiveMessage makes of the registers in a slot that held an older frame.
FromRegisters(regs, old) ==
    [can_id |-> [eff |-> regs.eff, rtr |-> regs.rtr, err |-> FALSE,
                 id |-> IF regs.eff THEN ExtendedId(regs.data) ELSE StandardId(regs.data)],
     len |-> regs.len,
     data |-> [i \in 1..8 |-> IF i <= regs.len THEN regs.data[i - 1 + DataOffset(regs.eff)]
                              ELSE old[i]]]

\* The controllers: a remote frame has no data, and its bit stands after the
\* identifier.  What the frame does not have stays as it was.
OnTheBus(to, from) ==
    LET offset == DataOffset(from.eff)
        bytes  == IF from.rtr THEN 0 ELSE Min({from.len, 8})
        flag   == IF ~ from.rtr THEN 0 ELSE IF from.eff THEN 4 ELSE 16
    IN [from EXCEPT !.data =
          [i \in 0..11 |-> IF i = offset - 1 THEN from.data[i] + flag
                           ELSE IF i < offset + bytes THEN from.data[i] ELSE to.data[i]]]

-----------------------------------------------------------------------------
(***************************************************************************)
(* The filters: of a descriptor, and of candump.                           *)
(***************************************************************************)

\* first is the mask or the lower bound, second the pattern or the upper one.
CheckFilter(f, flt) ==
    LET arb == [NoId EXCEPT !.id = f.can_id.id] IN
    CASE flt.type = "ET_AMASK" -> Masked(arb, flt.first) = Masked(flt.second, flt.first)
      [] flt.type = "ET_RANGE" -> /\ ~ Flagged(flt.first) /\ arb.id >= flt.first.id
                                  /\ Flagged(flt.second) \/ arb.id <= flt.second.id
      [] OTHER                 -> TRUE

AsWritten(token) == token.id.eff
Extended(token)  == token.id.eff \/ token.digits = 8

WithoutError(mask) == [mask EXCEPT !.err = FALSE]

\* CAN_INV_FILTER is the bit of CAN_ERR_FLAG.
ParseCanFilter(token) ==
    [can_id |-> [eff |-> Extended(token), rtr |-> token.id.rtr,
                 err |-> token.id.err \/ token.separator = "~", id |-> token.id.id],
     can_mask |-> WithoutError(token.mask)]

\* A token that is not <id>:<mask> or <id>~<mask> adds no filter.
WellFormed(token) == token.separator \in {":", "~"}
Given(toks)         == {token \in Range(toks) : WellFormed(token)}
ParsedFilters(toks) == {ParseCanFilter(token) : token \in Given(toks)}

CanFilterPassed(filters, f) ==
    \E flt \in filters :
        LET same == Masked(f.can_id, flt.can_mask) = Masked(flt.can_id, flt.can_mask)
        IN IF flt.can_id.err THEN ~ same ELSE same

-----------------------------------------------------------------------------
Empty == [eff |-> FALSE, rtr |-> FALSE, len |-> 0, data |-> [i \in 0..11 |-> 0]]
NoText  == [id |-> NoId, digits |-> 0, data |-> [kind |-> "none", tokens |-> <<>>]]
NoFilter == [type |-> "ET_DISABLED", first |-> NoId, second |-> NoId]
NoFrame == [can_id |-> NoId, len |-> 0, data |-> [i \in 1..8 |-> 0]]

TypeOK ==
    /\ stage \in {"idle", "queued", "sent", "received", "fault", "exit"}
    /\ text \in Texts \cup {NoText}
    /\ canFrame \in CanFrames /\ sent \in CanFrames
    /\ tx \in Registers /\ rx \in Registers
    /\ filter \in Filters \cup {NoFilter}
    /\ \E line \in CommandLines : tokens = line.tokens
    /\ canFilters \subseteq CanFilters /\ count \in Nat
    /\ shown \in {"none", "printed", "discarded"}
    /\ frames \in 0..MaxFrames

Init ==
    /\ stage = "idle" /\ text = NoText /\ shown = "none" /\ frames = 0
    /\ canFrame = NoFrame /\ sent = NoFrame
    /\ tx = Empty /\ rx = Empty
    /\ filter = NoFilter
    /\ \E line \in CommandLines :
         /\ tokens = line.tokens /\ canFilters = ParsedFilters(tokens)
         /\ count = line.count

\* io_devctl.
SetMask ==
    /\ stage = "idle"
    /\ filter' \in Filters
    /\ shown' = "none"
    /\ UNCHANGED <<stage, text, canFrame, sent, tx, rx, tokens, canFilters, count, frames>>

CanSend ==
    /\ stage = "idle" /\ frames < MaxFrames
    /\ frames' = frames + 1
    /\ shown' = "none"
    /\ text' \in Texts
    /\ \E f \in ParseCanFrame(text') : canFrame' = f /\ sent' = f
    /\ stage' = "queued"
    /\ UNCHANGED <<tx, rx, filter, tokens, canFilters, count>>

\* More than eight bytes are read from behind the frame, and the last of them are
\* written behind the registers.
TransmitMessage ==
    /\ stage = "queued"
    /\ IF canFrame.len > 8 THEN stage' = "fault" /\ UNCHANGED <<tx, rx>>
       ELSE /\ tx' = Written(tx, canFrame)
            /\ rx' = OnTheBus(rx, tx')
            /\ stage' = "sent"
    /\ UNCHANGED <<text, canFrame, sent, filter, tokens, canFilters, count, shown, frames>>

\* A frame of another node; its length code may be more than eight.
BusFrame ==
    /\ stage = "idle" /\ frames < MaxFrames
    /\ frames' = frames + 1
    /\ shown' = "none"
    /\ \E f \in BusFrames :
         /\ sent' = f
         /\ rx' = OnTheBus(rx, Written(Empty, f))
    /\ stage' = "sent"
    /\ UNCHANGED <<text, canFrame, tx, filter, tokens, canFilters, count>>

ReceiveMessage ==
    /\ stage = "sent"
    /\ IF rx.len > 8 THEN stage' = "fault" /\ UNCHANGED canFrame
       ELSE canFrame' = FromRegisters(rx, canFrame.data) /\ stage' = "received"
    /\ UNCHANGED <<text, sent, tx, rx, filter, tokens, canFilters, count, shown, frames>>

\* Without -n nothing is counted.
CountDown(n) == n - 1
Counted(n)   == IF n = 0 THEN 0 ELSE n - 1

\* The frame passes the filter of the descriptor, and candump reads it.
Dump ==
    /\ stage = "received"
    /\ IF CheckFilter(canFrame, filter)
          /\ (canFilters = {} \/ CanFilterPassed(canFilters, canFrame))
       THEN /\ shown' = "printed"
            /\ count' = Counted(count)
            /\ stage' = IF count = 1 THEN "exit" ELSE "idle"
       ELSE shown' = "discarded" /\ stage' = "idle" /\ UNCHANGED count
    /\ UNCHANGED <<text, canFrame, sent, tx, rx, filter, tokens, canFilters, frames>>

Next == SetMask \/ CanSend \/ TransmitMessage \/ BusFrame \/ ReceiveMessage \/ Dump

Spec == Init /\ [][Next]_vars

-----------------------------------------------------------------------------
(***************************************************************************)
(* Properties.                                                             *)
(***************************************************************************)

\* The reader gets the frame that was written: its format and identifier (the low 11
\* bits of a standard one), its kind, its length and, of a data frame, its data.
RoundTrip ==
    stage = "received" =>
      /\ canFrame.can_id = [eff |-> sent.can_id.eff, rtr |-> sent.can_id.rtr, err |-> FALSE,
                            id |-> IF sent.can_id.eff THEN sent.can_id.id
                                   ELSE sent.can_id.id % 2^11]
      /\ canFrame.len = sent.len
      /\ ~ sent.can_id.rtr =>
            SubSeq(canFrame.data, 1, sent.len) = SubSeq(sent.data, 1, sent.len)

\* What candump's usage text says of a filter as it was typed: <id>:<mask> takes the
\* frames that agree with the identifier in the bits of the mask, <id>~<mask> those that
\* do not, and an identifier of 8 digits is an extended one.  As can.h has it, the bit of
\* CAN_ERR_FLAG in an identifier inverts the filter, so no frame is compared with it.
Accepts(token, f) ==
    LET extended == token.id.eff \/ token.digits = 8
        inverted == token.separator = "~" \/ token.id.err
        agree    == /\ token.mask.eff => (f.can_id.eff <=> extended)
                    /\ token.mask.rtr => (f.can_id.rtr <=> token.id.rtr)
                    /\ \A bit \in BitsOf(token.mask.id) :
                         bit \in BitsOf(f.can_id.id) <=> bit \in BitsOf(token.id.id)
    IN agree # inverted

\* candump prints a frame only if one of the filters on its command line accepts it, or
\* none was given, and it discards no such frame that passed the descriptor's filter: the
\* filters are parsed and applied, with their flags, as its usage text promises.
ShownIfWanted ==
    LET wanted == Given(tokens) = {} \/ \E token \in Given(tokens) : Accepts(token, canFrame)
    IN /\ shown = "printed"   => wanted
       /\ shown = "discarded" => ~ wanted \/ ~ CheckFilter(canFrame, filter)

\* A text without data, like the documented 5AA#, is a frame without data.
NoDataNoBytes ==
    stage = "queued" /\ text.digits > 0 /\ text.data.kind = "none" => canFrame.len = 0
=============================================================================
