------------------------------ MODULE Routing ------------------------------
(***************************************************************************)
(* The pure parts of cpp/src/tsproxy.cpp: the values parse_confile and     *)
(* parse_args leave in g_proxyd_ctx, the destination port parse_proxy_port *)
(* finds for a request, and the path http_request_dump sends upstream.     *)
(*                                                                         *)
(* A request path, as sscanf leaves it in http_msg_t.path, is a sequence   *)
(* of tokens: a slash, a colon, or a word without either.  A string that   *)
(* starts with "/image" is <<"/", "im", "age">>: a rule is a prefix of     *)
(* characters and does not end at the end of a word.                       *)
(***************************************************************************)
EXTENDS Integers, SequencesExt

\* Keys of the configuration file that reach g_proxyd_ctx as an int.  Absent
\* keys, and values that are no number, read as 0 (iniparser.h).
PortKeys == {"proxyd", "dest", "im", "file", "audio", "video", "contact",
             "settings", "br_ptt", "location"}
Keys == PortKeys \union {"thread_num"}

DefaultPort ==
  [proxyd |-> 1080, dest |-> 8080, im |-> 8080, file |-> 8084, audio |-> 8086,
   video |-> 8088, contact |-> 8090, settings |-> 8092, br_ptt |-> 8094,
   location |-> 8096]

PortOrDefault(k, n) == IF n <= 0 THEN DefaultPort[k] ELSE n

\* A bug: the number of processors is not checked against 0.
ThreadsOrDefaultUnchecked(n, ncpu) == IF n # 0 THEN n ELSE ncpu

\* thread_num of parse_confile.  A negative number is kept.
ThreadsOrDefault(n, ncpu) ==
  CASE n # 0 -> n
    [] n = 0 /\ ncpu # 0 -> ncpu
    [] OTHER -> 1

\* g_proxyd_ctx after parse_confile, for the values ini of the file.
ParseConfile(ini, ncpu) ==
  [k \in Keys |-> IF k = "thread_num" THEN ThreadsOrDefault(ini[k], ncpu)
                                      ELSE PortOrDefault(k, ini[k])]

\* parse_args, "proxy_port proxy_dest_port [thread_num]": the other ports are
\* those of proxy_ctx_init.  The number of threads is get_ncpu without the third.
ParsePorts(proxyd, dest, threads, ncpu) ==
  [k \in Keys |->
    CASE k = "proxyd" -> PortOrDefault(k, proxyd)
      [] k = "dest" -> PortOrDefault(k, dest)
      [] k = "thread_num" -> IF threads = <<>> THEN ThreadsOrDefault(ncpu, 1)
                             ELSE ThreadsOrDefault(threads[1], 1)
      [] OTHER -> DefaultPort[k]]

-----------------------------------------------------------------------------
\* Where "://" begins in p, wherever it is.
Schemes(p) ==
  {i \in 1..(Len(p) - 2) : SubSeq(p, i, i + 2) = <<":", "/", "/">>}

\* strstr(path, "://") + 3, or the path.
AfterScheme(p) ==
  IF Schemes(p) = {} THEN p ELSE SubSeq(p, Min(Schemes(p)) + 3, Len(p))

\* strchr(pos, '/'), or <<>> for NULL.
FromSlash(p) ==
  LET i == SelectInSeq(p, LAMBDA t : t = "/")
  IN IF i = 0 THEN <<>> ELSE SubSeq(p, i, Len(p))

\* The tests of parse_proxy_port, in their order.  ("/v0/ap/location/setting"
\* is tested too, after "/v0/ap/location", for the same port.)
Rules ==
  << [prefix |-> <<"/", "im">>, key |-> "im"],
     [prefix |-> <<"/", "audio", "/", "ptt", "/", "broadcast">>, key |-> "br_ptt"],
     [prefix |-> <<"/", "audio">>, key |-> "audio"],
     [prefix |-> <<"/", "video">>, key |-> "video"],
     [prefix |-> <<"/", "file">>, key |-> "file"],
     [prefix |-> <<"/", "contact">>, key |-> "contact"],
     [prefix |-> <<"/", "group">>, key |-> "contact"],
     [prefix |-> <<"/", "settings">>, key |-> "settings"],
     [prefix |-> <<"/", "location">>, key |-> "location"],
     [prefix |-> <<"/", "v0", "/", "ap", "/", "location">>, key |-> "location"] >>

\* A bug: the rules are tried from the last to the first.
FirstRuleReversed(p) ==
  SelectLastInSeq(Rules, LAMBDA r : IsPrefix(r.prefix, p))

\* The first rule whose string path starts with, or 0.
FirstRule(p) == SelectInSeq(Rules, LAMBDA r : IsPrefix(r.prefix, p))

\* parse_proxy_port: the key of the port for a request to path p.
RouteKey(p) ==
  LET i == FirstRule(FromSlash(AfterScheme(p)))
  IN IF i = 0 THEN "dest" ELSE Rules[i].key

\* "find dest_port failed": a port that is 0 is replaced by the default one.
ParseProxyPort(ctx, p) ==
  IF ctx[RouteKey(p)] = 0 THEN ctx["dest"] ELSE ctx[RouteKey(p)]

\* http_request_dump: the path of the request line sent upstream.
DumpedPath(p) ==
  LET path == FromSlash(AfterScheme(p)) IN IF path = <<>> THEN <<"/">> ELSE path

=============================================================================
