---------------------------- MODULE MCFramePath -----------------------------
(***************************************************************************)
(* FramePath for TLC: the examples of the two usage texts, and the texts   *)
(* at the edges of what the parsers take.                                  *)
(***************************************************************************)
EXTENDS FramePath

H123      == 291            \* 0x123
H5AA      == 1450           \* 0x5AA
HFFF      == 4095           \* 0xFFF
H1F334455 == 523453525      \* 0x1F334455
HMax      == 2^29 - 1       \* 0x1FFFFFFF

Plain(n)   == [NoId EXCEPT !.id = n]
AllBits(n) == [eff |-> TRUE, rtr |-> TRUE, err |-> TRUE, id |-> n]

None       == [kind |-> "none", tokens |-> <<>>]
R(digits)  == [kind |-> "rtr", tokens |-> <<digits>>]
B(parts)   == [kind |-> "bytes", tokens |-> parts]
T(id, digits, data) == [id |-> id, digits |-> digits, data |-> data]

\* 123#11.2, 1F334455#1122334455667788, E0000123#A, FFF#1.., 00000123#R3, 123#R,
\* 5AA#, 333#R9, nine bytes, an empty token, no digit before '#'.
MCTexts ==
    {T(Plain(H123), 3, B(<<<<1, 1>>, <<2>>>>)),
     T(Plain(H1F334455), 8, B(<<<<1, 1, 2, 2, 3, 3, 4, 4, 5, 5, 6, 6, 7, 7, 8, 8>>>>)),
     T(AllBits(H123), 8, B(<<<<10>>>>)),
     T(Plain(HFFF), 3, B(<<<<1, NotHex>>>>)),
     T(Plain(HFFF), 3, B(<<<<15, 15, 0>>>>)),
     T(Plain(H123), 8, R(<<3>>)),
     T(Plain(H123), 3, R(<<>>)),
     T(Plain(H5AA), 3, None),
     T(Plain(H123), 3, R(<<9>>)),
     T(Plain(H123), 3, B([i \in 1..9 |-> <<i>>])),
     T(Plain(H123), 3, B(<<<<1>>, <<>>, <<2>>>>)),
     T(NoId, 0, None)}

Tok(id, digits, separator, mask) ==
    [id |-> id, digits |-> digits, separator |-> separator, mask |-> mask]

Ext  == Tok(Plain(H1F334455), 8, ":", [AllBits(HMax) EXCEPT !.err = FALSE])
Std  == Tok(Plain(H123), 3, ":", Plain(2047))
Data11 == Tok(Plain(H123), 3, ":", [AllBits(2047) EXCEPT !.err = FALSE])
Differs == Tok(Plain(H123), 3, "~", [AllBits(2047) EXCEPT !.eff = FALSE])
Differs8 == Tok(Plain(H1F334455), 8, "~", [AllBits(HMax) EXCEPT !.err = FALSE])
Bit29 == Tok([Plain(H123) EXCEPT !.err = TRUE], 8, ":", Plain(2047))
Bad  == Tok(Plain(H123), 3, "#", Plain(2047))

MCCommandLines ==
    [tokens : {<<>>, <<Ext>>, <<Std>>, <<Data11, Bad>>, <<Differs>>, <<Bit29>>, <<Bad>>,
               <<Ext, Differs>>, <<Differs8>>},
     count : {0, 1}]

MCFilters ==
    {[type |-> "ET_AMASK", first |-> Plain(HMax), second |-> Plain(H123)],
     [type |-> "ET_RANGE", first |-> Plain(H5AA), second |-> AllBits(HMax)]}

Frame(eff, rtr, id, len) ==
    [can_id |-> [eff |-> eff, rtr |-> rtr, err |-> FALSE, id |-> id], len |-> len,
     data |-> [i \in 1..8 |-> 16 * i + i]]

MCBusFrames ==
    {Frame(FALSE, TRUE, H123, 8), Frame(TRUE, FALSE, HMax, 8),
     Frame(FALSE, FALSE, 2047, 8), Frame(FALSE, FALSE, H5AA, 15)}

MCStack == {0, 3, 255}
=============================================================================
