---------------------------- MODULE MCOrderEntry ----------------------------
(* Every class of input, one departure from an ordinary order at a time:     *)
(* explicit sides with and without an outcome that contradicts them, actions *)
(* with each kind of outcome, sizes and prices at the edge of each check,    *)
(* and words that cannot be read, members of Outcome among them; records     *)
(* with all fields, without a side, and without the other fields.            *)
EXTENDS OrderEntry

Spelled(side, outcome) ==
    [market |-> <<"m">>, side |-> side, outcome |-> outcome, size |-> 2, price |-> "number",
     type |-> "LIMIT", tif |-> "GTC"]
Usual == Spelled("BUY_YES", "none")

MCWords ==
    {Spelled("SELL_NO", "YES"), Spelled("SELL", NoMember), Market(Spelled("ASK", "none")),
     [Spelled("B", "0") EXCEPT !.tif = "FOK"], Spelled(Unknown, "YES"), Spelled("LONG", Unknown)}
    \cup {[Usual EXCEPT !.market = <<"m", "1">>, !.size = n] : n \in 0..2}
    \cup {[Usual EXCEPT !.price = p] : p \in {"nonsense", "none"}}
    \cup {[Usual EXCEPT !.tif = Unknown], [Usual EXCEPT !.type = "MARKET"],
          [Usual EXCEPT !.type = Unknown]}

Change(size, price, tif) == [size |-> size, price |-> price, tif |-> tif]
MCChanges == {Change(<<>>, <<>>, <<>>), Change(<<1>>, <<"number">>, <<>>),
              Change(<<0>>, <<>>, <<>>), Change(<<>>, <<"nonsense">>, <<>>),
              Change(<<>>, <<>>, <<"IOC">>), Change(<<2>>, <<>>, <<Unknown>>)}

MCRecords == {Fields, Fields \ {"side", "filled_quantity"},
              {"side", "filled_quantity", "limit_price"}}

MCMarketIds == {<<"m">>, <<"m", "1">>}
MCBadIds == {<<"m", "1">>, <<"ord", "1">>, <<"ord", "", "1">>, <<"ord", "m", "">>}
MCNumerals == <<"1", "2", "3">>
=============================================================================
