--------------------------- MODULE MC_ITCHParser ----------------------------
(***************************************************************************)
(* The parser run, with three checks of the operators around parse: the   *)
(* round trip of each field through the demo and benchmark generators and  *)
(* the parser, and get_stock_symbol against a reference definition over    *)
(* every 8-character stock field drawn from Chars.                         *)
(***************************************************************************)
EXTENDS ITCHParser

CONSTANT Chars      \* characters a stock field is built from, " " among them

ASSUME " " \in Chars

\* Reference definition (spec 3, 8): the effective symbol is the longest
\* left-aligned prefix ending in a non-space character (empty when all
\* eight characters are spaces).
EffectiveSymbol(s) ==
    LET ends == {k \in 1 .. Len(s) : s[k] # " "}
    IN  IF ends = {} THEN <<>> ELSE SubSeq(s, 1, Max(ends))

\* The decoded messages that carry a std::array<char, 8> stock field
\* (AddOrderMessage, TradeMessage, StockDirectoryMessage).
StockTypes == {"A", "P", "R"}

\* Whenever parse has returned a record with a stock field, whatever that
\* field holds, get_stock_symbol's trailing-space loop on it (as demo.cpp
\* applies it to add_order.stock and trade.stock) yields the effective
\* symbol.
SymbolIsEffectivePrefix ==
    (parsed # None /\ parsed.type \in StockTypes) =>
        \A stock \in [1 .. 8 -> Chars] :
            GetStockSymbol(stock) = EffectiveSymbol(stock)

\* Spec 8 (add-order round trip), for every supported type: whenever parse
\* has returned a record, each of its parse_* assignments converts every
\* field of the wire struct, and converts it back to the value the sender
\* wrote big-endian; an array field is copied as it is.  The wire sample
\* has distinct bytes, so a swap of the wrong width or a missing swap shows.
FieldsRoundTrip ==
    parsed # None =>
        LET t == parsed.type
        IN  /\ Len(Decode[t]) = Len(Layout[t])
            /\ \A i \in 1 .. Len(Layout[t]) :
                 IF i \in ArrayFields(t) THEN Decode[t][i] = 0
                 ELSE LET wire == [k \in 1 .. Layout[t][i] |-> k]
                      IN  DecodeField(Layout[t][i], Decode[t][i], wire) = wire

(***************************************************************************)
(* The frame generators of demo.cpp and benchmark.cpp: the conversion each *)
(* assigns to the struct's fields, in declaration order, w for             *)
(* hton16/32/64 and 0 for a plain assignment or memcpy.                    *)
(***************************************************************************)
HeaderEncode == <<0, 2, 2, 8>>

\* DemoMessageGenerator::create_add_order, and MessageGenerator::
\* generate_add_order of the benchmark, which sets the same fields.
AddOrderEncode == HeaderEncode \o <<8, 0, 4, 0, 4>>

\* Mutant: create_trade converts shares with hton16.
TradeEncodeSharesHton16 == HeaderEncode \o <<8, 0, 2, 0, 4, 8>>

\* DemoMessageGenerator::create_trade.
TradeEncode == HeaderEncode \o <<8, 0, 4, 0, 4, 8>>

\* MessageGenerator::generate_execute_order.
ExecuteOrderEncode == HeaderEncode \o <<8, 4, 8>>

Generators == [A |-> AddOrderEncode, P |-> TradeEncode, E |-> ExecuteOrderEncode]

\* The bytes, in frame order, that `field = hton<w>(v)` leaves in an n-byte
\* integer field for the host value v (most significant byte first): the
\* conversions of the call and the assignment, then the little-endian
\* store.  w = 0 is a plain assignment.
EncodeField(n, w, v) ==
    LET x == IF w = 0 THEN v ELSE Fit(Reverse(Fit(v, w)), n)
    IN  Reverse(x)

\* The demo and benchmark generators and the parser agree: a frame either
\* generator builds for type t (sizeof its struct, so parse accepts it)
\* decodes, field by field, to the value the generator was given.  The
\* value sample has distinct bytes, so an hton of another width than the
\* parser's ntoh, or a missing one, shows.
GeneratedFramesRoundTrip ==
    (parsed # None /\ parsed.type \in DOMAIN Generators) =>
        LET t   == parsed.type
            enc == Generators[t]
        IN  /\ Len(enc) = Len(Layout[t])
            /\ \A i \in 1 .. Len(Layout[t]) \ ArrayFields(t) :
                 LET n == Layout[t][i]
                     v == [k \in 1 .. n |-> k]
                 IN  DecodeField(n, Decode[t][i], EncodeField(n, enc[i], v)) = v
====
