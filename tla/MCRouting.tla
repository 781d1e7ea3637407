------------------------------ MODULE MCRouting ------------------------------
(* Instances of Routing: three configurations and calls of every form. *)
EXTENDS Routing

block == <<"get_block">>
state == <<"get_state">>
condenser == <<"condenser_api">>

One == <<"params=[1]">>
Empty == <<"params=[]">>
Dict == <<"params={}">>
Account == <<"params=[@a", "b]">>
Transfers == <<"params=[@a/transfers]">>

Plain(method, params) ==
    [method |-> method, params |-> params, items |-> <<>>, index |-> 0]

CallOf(items, index) ==
    [method |-> <<"call">>, params |-> Absent, items |-> items, index |-> index]

\* The last ones have dots in their strings or spell params out in their names.
MCRequests ==
    { Plain(block, One),
      Plain(block, Absent),
      CallOf(<< <<"database_api">>, block, One>>, 0),
      CallOf(<<Number, block, One>>, 1),
      CallOf(<<Number, block, One>>, -1),
      CallOf(<<Number, block, Dict>>, 0),
      CallOf(<<Number, block, One>>, 2),
      CallOf(<<condenser, block, One>>, 0),
      CallOf(<<condenser, block>>, 0),
      CallOf(<< <<"database_api">> >>, 0),
      Plain(condenser \o block, One),
      Plain(<<"steemd", "database_api", "get_block">>, One),
      Plain(<<"jsonrpc", "get_methods">>, Empty),
      Plain(<<"jsonrpc", "get_methods">>, Absent),
      Plain(state, Transfers),
      Plain(state, One),
      CallOf(<<condenser, state, Account>>, 0),
      Plain(<<"foo", "bar">>, One),
      Plain(<<"foo", "bar">>, Absent),
      Plain(<<"nope", "bar">>, One),
      Plain(<<"a", "b", "c", "d">>, One),
      CallOf(<<condenser, block \o One>>, 0),
      CallOf(<<condenser, state \o Transfers>>, 0),
      CallOf(<<condenser \o block, <<"d">>, Dict>>, 0),
      CallOf(<<condenser, block \o <<"d">>, Dict>>, 0),
      Plain(<<"foo", "bar", "params=[1]">>, Absent) }

MCParamsTokens == {"params=[]", "params={}", "params=[1]", "params=[@a", "params=[@a/transfers]"}

MCTokens ==
    {"steemd", "appbase", "jsonrpc", "condenser_api", "database_api", "login_api",
     "call", "get_block", "get_state", "get_methods", "foo", "bar", "nope",
     "a", "b", "c", "d", "b]"} \cup MCParamsTokens

MCParams == {Empty, Dict, One, Account, Transfers}
MCDictParams == {Dict}
MCTransferPaths == {Transfers}
MCOddPaths == {One}

E1(prefix, value) == [prefix |-> prefix, value |-> value]

Steemd(translate) ==
    [name |-> "steemd", translate |-> translate,
     urls |-> << E1(<<"steemd">>, "https://steemd") >>,
     ttls |-> << E1(<<"steemd">>, 3), E1(<<"steemd", "database_api", "get_block">>, -2) >>,
     timeouts |-> << E1(<<"steemd">>, 5) >>]

Appbase ==
    [name |-> "appbase", translate |-> FALSE,
     urls |-> << E1(<<"appbase", "condenser_api", "get_block">>, "wss://blocks"),
                 E1(<<"appbase">>, "wss://appbase") >>,
     ttls |-> << E1(<<"appbase">>, -1), E1(<<"appbase">>, 1),
                 E1(<<"appbase", "condenser_api", "get_block", "params=[1]">>, 9) >>,
     timeouts |-> << E1(<<"appbase">>, 3), E1(<<"appbase", "jsonrpc">>, 0) >>]

Foo ==
    [name |-> "foo", translate |-> FALSE,
     urls |-> << E1(<<"foo">>, "https://foo") >>, ttls |-> <<>>,
     timeouts |-> << E1(<<"foo", "bar", "params=[1]">>, 2) >>]

\* The last one has no url for what the calls are translated to.
MCConfigs ==
    { <<Steemd(TRUE), Appbase, Foo>>, <<Steemd(FALSE), Appbase>>, <<Steemd(TRUE), Foo>> }

MCUrls == {"https://steemd", "wss://blocks", "wss://appbase", "https://foo", "https://transfers"}
=============================================================================
