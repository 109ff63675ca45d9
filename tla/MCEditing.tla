----------------------------- MODULE MCEditing -----------------------------
(* Two ids, of which 1 is also a name; monitors and lists with an id, a        *)
(* resolution or a refresh rate once or twice, and with none; a second         *)
(* resolution and a second rate that only the command line's user types.       *)
EXTENDS CommandLine

TwoIds == {0, 1}
OneName == {1}
Plain == [size |-> "small", rates |-> <<>>]
Rated == [size |-> "small", rates |-> <<60>>]
Twice == [size |-> "small", rates |-> <<60, 60>>]
SomeModes == {Plain, Rated, Twice}
TwoRates == {30, 60}
TwoSizes == {"small", "big"}
Typing(size, rates) == [size |-> size, rates |-> rates]
SomeTyped == {<<Typing("big", {30, 60})>>,
              <<Typing("small", {}), Typing("small", {30})>>}
Shown(id, name, modes) == [id |-> id, name |-> name, enabled |-> TRUE, modes |-> modes]
SomeMonitors == {Shown(0, NoName, <<Plain, Rated>>),
                 Shown(0, 1, <<>>),
                 Shown(1, NoName, <<Plain>>),
                 [id |-> 1, name |-> 1, enabled |-> FALSE, modes |-> <<Twice>>]}
SomeLists == {<<Shown(0, 1, <<>>), Shown(1, NoName, <<Rated>>)>>,
              <<Shown(1, NoName, <<>>), Shown(1, 1, <<>>)>>,
              <<Shown(0, NoName, <<Plain, Rated>>)>>,
              <<Shown(0, NoName, <<Twice>>)>>}
OneMonitor == <<[id |-> 0, name |-> NoName, enabled |-> TRUE, modes |-> <<Plain>>]>>
=============================================================================
