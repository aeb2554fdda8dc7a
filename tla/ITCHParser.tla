----------------------------- MODULE ITCHParser -----------------------------
(***************************************************************************)
(* ITCHParser::parse of src/include/itch_parser.hpp, called by the         *)
(* transport on successive frames.  A frame is abstracted to its first     *)
(* byte (the message type) and its length: parse reads nothing else to     *)
(* decide whether it returns a message, and each parse_* copies the fields *)
(* of its struct, so the decoded record is its message type.               *)
(***************************************************************************)
EXTENDS Naturals, ITCHProtocol

CONSTANTS
    MaxLen,     \* longest frame length offered
    Unknown,    \* a first byte that is no declared MessageType
    NoFrame,
    None        \* std::nullopt

VARIABLES
    frame,      \* the frame last passed to parse: [type, len]
    parsed      \* what parse returned: [type] or None

parserVars == <<frame, parsed>>

FrameTypes == MessageTypes \cup {Unknown}

\* parse_add_order ... parse_stock_directory: copy the wire struct's
\* fields, byte-swapped by ntoh16/32/64, into the ParsedMessage of type t.
\* No field decides anything downstream, so the record keeps its type.
ParseBody(t) == [type |-> t]

\* The conversion each parse_* applies to the wire struct's fields, in
\* declaration order: w for ntoh16/32/64 (w = 2, 4, 8 bytes), 0 for a
\* plain assignment (u8, char, std::array).
HeaderDecode == <<0, 2, 2, 8>>

\* Mutant: parse_add_order converts shares with ntoh16.
AddOrderDecodeSharesNtoh16 == HeaderDecode \o <<8, 0, 2, 0, 4>>

\* parse_add_order: order_reference_number ntoh64, buy_sell_indicator,
\* shares ntoh32, stock, price ntoh32.
AddOrderDecode == HeaderDecode \o <<8, 0, 4, 0, 4>>

Decode ==
    [A |-> AddOrderDecode,
     E |-> HeaderDecode \o <<8, 4, 8>>,
     C |-> HeaderDecode \o <<8, 4, 8, 0, 4>>,
     X |-> HeaderDecode \o <<8, 4>>,
     D |-> HeaderDecode \o <<8>>,
     U |-> HeaderDecode \o <<8, 8, 4, 4>>,
     P |-> HeaderDecode \o <<8, 0, 4, 0, 4, 8>>,
     S |-> HeaderDecode \o <<0>>,
     R |-> HeaderDecode \o <<0, 0, 0, 4, 0, 0, 0, 0, 0, 0, 0, 0, 4, 0>>]

\* An integer held in n bytes, most significant first, converted to an
\* integer of n bytes: the high bytes dropped, or zeros prepended.
Fit(s, n) ==
    IF Len(s) >= n THEN SubSeq(s, Len(s) - n + 1, Len(s))
    ELSE [i \in 1 .. n - Len(s) |-> 0] \o s

\* The value, most significant byte first, that `field = ntoh<w>(wire->field)`
\* stores for an n-byte integer field whose wire bytes (big-endian) are
\* `wire`: the little-endian host loads the bytes reversed, ntoh<w>
\* (__builtin_bswap) converts its argument to w bytes and reverses them,
\* and the assignment converts back to n bytes.  w = 0 is a plain copy.
DecodeField(n, w, wire) ==
    LET host == Reverse(wire)
    IN  IF w = 0 THEN host ELSE Fit(Reverse(Fit(host, w)), n)

\* Mutant: the switch's `default` falls through to a decode of the
\* header instead of returning nullopt.
ParseDefaultDecodes(t, len) ==
    IF len < HeaderSize THEN None
    ELSE IF t \notin SupportedTypes \/ len = SizeOf(t) THEN ParseBody(t)
    ELSE None

\* parse(data, length): nullopt below sizeof(ITCHMessageHeader); the
\* [[likely]] tests of 'A' and 'E' and the switch over the seven other
\* supported types each return parse_*(data, msg) exactly when length
\* equals sizeof of the type's struct; any other type hits `default`.
Parse(t, len) ==
    IF len < HeaderSize THEN None
    ELSE IF t \in SupportedTypes /\ len = SizeOfStruct(ParseCase[t])
         THEN ParseBody(t)
    ELSE None

PInit ==
    /\ frame = NoFrame
    /\ parsed = None

\* The transport calls parse on a frame.
ParseFrame ==
    \E t \in FrameTypes, len \in 0 .. MaxLen :
        /\ frame' = [type |-> t, len |-> len]
        /\ parsed' = Parse(t, len)

PSpec == PInit /\ [][ParseFrame]_parserVars

PTypeOK ==
    /\ frame \in {NoFrame} \cup [type : FrameTypes, len : 0 .. MaxLen]
    /\ parsed \in {None} \cup [type : SupportedTypes]

\* Decoder and writer agree: a frame parse accepts is decoded as its own
\* type, and write_message appends exactly as many bytes for the record as
\* the frame had on the wire: the struct get_message_size's switch picks
\* for the type has the sizeof parse's own dispatch compared the length to.
WriterWidthMatchesFrame ==
    parsed # None =>
        /\ parsed.type = frame.type
        /\ GetMessageSize(parsed.type) = frame.len

\* Spec 3/4.1 and the unit test message_size_calculation: the widths of the
\* nine message types are A 36, E 31, C 36, X 23, D 19, U 35, P 44, S 12,
\* R 39, and parse returns a record exactly for a supported type at its width.
SpecWidth ==
    [A |-> 36, E |-> 31, C |-> 36, X |-> 23, D |-> 19,
     U |-> 35, P |-> 44, S |-> 12, R |-> 39]

AcceptsExactlySpecWidths ==
    frame # NoFrame =>
        ((parsed # None) <=> (frame.type \in DOMAIN SpecWidth
                               /\ frame.len = SpecWidth[frame.type]))
====
