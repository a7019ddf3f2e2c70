--------------------------- MODULE MCBalancerTest ---------------------------
(***************************************************************************)
(* The table of unnamed/part_000, row by row; a missing del, banned or exp *)
(* is empty, and load factors are in hundredths.                           *)
(***************************************************************************)
EXTENDS BalancerTest

E(addr, loadFactor) == [Addr |-> addr, LoadFactor |-> loadFactor]

T(add, del, banned, repeat, exp) ==
    [add |-> add, del |-> del, banned |-> banned, repeat |-> repeat, exp |-> exp]

Uniform == <<E("foo", 0), E("bar", 0), E("baz", 0)>>
Loaded  == <<E("foo", 1000), E("bar", 2000), E("baz", 3000)>>
All     == {"foo", "bar", "baz"}

MCtestData ==
    << T(<<E("foo", 0), E("bar", 0)>>, <<>>, {}, 1000, [foo |-> 500, bar |-> 500]),
       T(<<E("foo", 20), E("bar", 100), E("baz", 100)>>, <<>>, {}, 1000,
         [foo |-> 600, bar |-> 200, baz |-> 200]),
       T(<<E("foo", 100), E("bar", 10), E("baz", 90)>>, <<>>, {}, 1000,
         [foo |-> 200, bar |-> 600, baz |-> 200]),
       T(<<E("foo", 25), E("bar", 100), E("baz", 100)>>, <<"foo">>, {}, 1000,
         [bar |-> 500, baz |-> 500]),
       T(<<E("foo", 100), E("bar", 25), E("baz", 25)>>, <<"foo">>, {}, 1000,
         [bar |-> 500, baz |-> 500]),
       T(<<E("foo", 100), E("bar", 75), E("baz", 25)>>, <<"bar">>, {}, 1200,
         [foo |-> 400, baz |-> 800]),
       T(Uniform, <<"baz">>, {}, 1000, [foo |-> 500, bar |-> 500]),
       T(Uniform, <<"foo", "bar", "baz">>, {}, 1, <<>>),
       T(Uniform, <<>>, {"foo", "bar"}, 100, [baz |-> 100]),
       T(Uniform, <<>>, {"foo"}, 100, [bar |-> 50, baz |-> 50]),
       T(Uniform, <<>>, All, 150, [foo |-> 50, bar |-> 50, baz |-> 50]),
       T(Loaded, <<>>, All, 150, [foo |-> 75, bar |-> 50, baz |-> 25]),
       T(Loaded, <<>>, {"foo"}, 150, [foo |-> 0, bar |-> 100, baz |-> 50]) >>
=============================================================================
