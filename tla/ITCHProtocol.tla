---------------------------- MODULE ITCHProtocol ----------------------------
(***************************************************************************)
(* The wire layouts of src/include/itch_protocol.hpp.  Every struct is     *)
(* declared under #pragma pack(1) and __attribute__((packed)), so its      *)
(* sizeof is the sum of its field widths; Layout lists those widths in     *)
(* declaration order.  The parser and the logger each pick the struct of   *)
(* a message type by a switch of their own (ParseCase, GetMessageSizeCase) *)
(* and use its sizeof as the frame width and the record width.             *)
(***************************************************************************)
EXTENDS Naturals, Sequences, SequencesExt

\* enum class MessageType : uint8_t, all 22 declared letters.
MessageTypes ==
    {"S", "R", "H", "Y", "L", "V", "W", "K", "J", "h", "A",
     "F", "E", "C", "X", "D", "U", "P", "Q", "B", "I", "N"}

\* ITCHMessageHeader: message_type u8, stock_locate u16,
\* tracking_number u16, timestamp u64.
HeaderLayout == <<1, 2, 2, 8>>

\* The nine structs of ParsedMessage's union, field widths in declaration
\* order.
StructLayout ==
    [AddOrderMessage              |-> HeaderLayout \o <<8, 1, 4, 8, 4>>,
     ExecuteOrderMessage          |-> HeaderLayout \o <<8, 4, 8>>,
     ExecuteOrderWithPriceMessage |-> HeaderLayout \o <<8, 4, 8, 1, 4>>,
     OrderCancelMessage           |-> HeaderLayout \o <<8, 4>>,
     OrderDeleteMessage           |-> HeaderLayout \o <<8>>,
     OrderReplaceMessage          |-> HeaderLayout \o <<8, 8, 4, 4>>,
     TradeMessage                 |-> HeaderLayout \o <<8, 1, 4, 8, 4, 8>>,
     SystemEventMessage           |-> HeaderLayout \o <<1>>,
     StockDirectoryMessage        |->
         HeaderLayout \o <<8, 1, 1, 4, 1, 1, 2, 1, 1, 1, 1, 1, 4, 1>>]

\* ITCHParser::parse dispatches on msg.type: for each type it handles, the
\* struct whose sizeof the length is compared with and which parse_* fills.
ParseCase ==
    [A |-> "AddOrderMessage",          E |-> "ExecuteOrderMessage",
     C |-> "ExecuteOrderWithPriceMessage",
     X |-> "OrderCancelMessage",       D |-> "OrderDeleteMessage",
     U |-> "OrderReplaceMessage",      P |-> "TradeMessage",
     S |-> "SystemEventMessage",       R |-> "StockDirectoryMessage"]

SupportedTypes == DOMAIN ParseCase

\* The wire layout a frame of type t is decoded with.
Layout == [t \in SupportedTypes |-> StructLayout[ParseCase[t]]]

\* The positions in Layout of the std::array<char, N> fields (stock, and
\* StockDirectoryMessage's issue_sub_type); every other field is an integer.
ArrayFields(t) ==
    CASE t \in {"A", "P"} -> {8}
      [] t = "R"          -> {5, 11}
      [] OTHER            -> {}

\* sizeof of a packed struct: the sum of its field widths.
SizeOfLayout(l) == FoldLeft(+, 0, l)

HeaderSize == SizeOfLayout(HeaderLayout)

SizeOfStruct(s) == SizeOfLayout(StructLayout[s])

SizeOf(t) == SizeOfStruct(ParseCase[t])

\* Mutant: a copy-pasted case, EXECUTE_ORDER_WITH_PRICE returning
\* sizeof(ExecuteOrderMessage).
GetMessageSizeCaseCopyPaste ==
    [A |-> "AddOrderMessage",          E |-> "ExecuteOrderMessage",
     C |-> "ExecuteOrderMessage",
     X |-> "OrderCancelMessage",       D |-> "OrderDeleteMessage",
     U |-> "OrderReplaceMessage",      P |-> "TradeMessage",
     S |-> "SystemEventMessage",       R |-> "StockDirectoryMessage"]

\* The switch of AsyncLogger::get_message_size (async_logger.hpp): the
\* struct whose sizeof each case returns.
GetMessageSizeCase ==
    [A |-> "AddOrderMessage",          E |-> "ExecuteOrderMessage",
     C |-> "ExecuteOrderWithPriceMessage",
     X |-> "OrderCancelMessage",       D |-> "OrderDeleteMessage",
     U |-> "OrderReplaceMessage",      P |-> "TradeMessage",
     S |-> "SystemEventMessage",       R |-> "StockDirectoryMessage"]

\* get_message_size: the case's sizeof, 0 at `default`.
GetMessageSize(t) ==
    IF t \in DOMAIN GetMessageSizeCase
    THEN SizeOfStruct(GetMessageSizeCase[t]) ELSE 0

\* get_stock_symbol: drop trailing spaces of the 8-character stock field,
\* `while (len > 0 && stock[len - 1] == ' ') --len;`.
RECURSIVE StockSymbolLen(_, _)

\* Mutant: the loop stops one character early (len > 1).
StockSymbolLenOffByOne(stock, len) ==
    IF len > 1 /\ stock[len] = " " THEN StockSymbolLen(stock, len - 1) ELSE len

StockSymbolLen(stock, len) ==
    IF len > 0 /\ stock[len] = " " THEN StockSymbolLen(stock, len - 1) ELSE len

GetStockSymbol(stock) == SubSeq(stock, 1, StockSymbolLen(stock, Len(stock)))
====
