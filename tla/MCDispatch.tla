---------------------------- MODULE MCDispatch -----------------------------
(***************************************************************************)
(* Dispatch on small instances: the configurations and the request paths.  *)
(***************************************************************************)
EXTENDS Dispatch

\* The file of the assets, with two threads for eight; an empty file, an odd
\* one, and one with a negative number of threads.
Asset == [k \in Keys |-> IF k = "thread_num" THEN 2 ELSE DefaultPort[k] + 1]
Empty == [k \in Keys |-> 0]
Odd == [k \in Keys |-> CASE k = "thread_num" -> 3 [] k \in {"im", "dest"} -> -1 [] OTHER -> 7]
Negative == [Asset EXCEPT !["thread_num"] = -1]

ConfFiles == {Asset, Empty, Odd, Negative}
PortArgs == {-1, 0, 2}

Broadcast == <<"/", "audio", "/", "ptt", "/", "broadcast">>
Setting == <<"/", "v0", "/", "ap", "/", "location", "/", "setting">>
Query(p) == <<"/", "im", "?u=", "http", ":", "/", "/", "h">> \o p

\* Paths alone, with scheme and host, and with another URL in the query.
Plain == {<<>>, <<"*">>, <<"h", ":", "443">>, <<"/">>, <<"/", "im", "age">>,
          Broadcast, <<"/", "audio", "/", "x">>, <<"/", "contact">>, <<"/", "group", "s">>,
          <<"/", "file">>, <<"/", "video">>, <<"/", "settings">>, <<"/", "location">>, Setting}
Urls == Plain \union {<<"http", ":", "/", "/", "h">> \o p : p \in Plain}
              \union {Query(p) : p \in {<<>>, <<"/", "video">>}}
=============================================================================
