------------------------------- MODULE MCParts -------------------------------
(* Instances of the parts for TLC: the environments of each. *)
EXTENDS Parts, SequencesExt, TLC

-----------------------------------------------------------------------------
(* obfs4: lengths of 1, segments of 7; counters that end early, iat modes, *)
(* length tables with 0 and with both ends, and one broken connection.     *)

W(writes, iat, lens, counter, broken) ==
  [writes |-> writes, iat |-> iat, lens |-> lens, counter |-> counter, broken |-> broken]
Obfs4Cases == {W(<<1, 4>>, "none", {0, 3}, 20, FALSE), W(<<6>>, "none", 0..7, 20, FALSE),
               W(<<4>>, "enabled", {2, 6}, 20, TRUE), W(<<4, 1>>, "paranoid", {0, 2, 7}, 7, FALSE),
               W(<<1, 1, 1>>, "none", {3, 7}, 5, FALSE)}

\* ntor: clocks apart by none, one and two hours, another bridge's certificate, a fault.
N(skew, cert, hours, fault) == [skew |-> skew, cert |-> cert, hours |-> hours, fault |-> fault]
NtorCases == {N(k, "b", 1, FALSE) : k \in -1..2} \cup {N(0, "z", 0, FALSE), N(0, "b", 0, TRUE)}

\* obfs3: every private key of a small group, paddings, a broken connection.
D3(init, resp, pads, data, broken) ==
  [raw |-> [init |-> init, resp |-> resp], pads |-> pads, data |-> data, broken |-> broken]
Obfs3Cases == {D3(0..5, 2..5, {0}, 1, FALSE), D3({6}, {7}, {0, 1}, 1, FALSE),
               D3({4}, {5}, {1}, 2, FALSE), D3({4}, {5}, {0}, 1, TRUE)}

Obfs2Cases == {[pads |-> {0, 2}, data |-> 2, broken |-> FALSE], [pads |-> {1}, data |-> 1, broken |-> TRUE]}

\* ScrambleSuit: both handshakes, all packet types, writes that need one and two packets.
P(type, data, pad) == [type |-> type, data |-> data, pad |-> pad]
S(ticket, packets, writes, broken) == [ticket |-> ticket, raw |-> {2, 5}, pads |-> {0, 1, 2},
                                       packets |-> packets, writes |-> writes, broken |-> broken]
SuitCases == {S(FALSE, <<P("payload", 1, 0), P("payload", 0, 0), P("seed", 1, 1)>>, <<>>, FALSE),
              S(TRUE, <<P("ticket", 2, 0), P("payload", 1, 1), P("unknown", 0, 0)>>, <<>>, TRUE),
              S(TRUE, <<>>, <<3, 8>>, FALSE)}

\* Three connections, two tickets, one crash and one failed write, a clock past the lifetime.
TicketsCases == {[conns |-> 3, tickets |-> 2, hours |-> 2, crashes |-> 1, errors |-> 1]}

DistCases == {[min |-> 3, max |-> 6, weights |-> {1, 2, 7}, biased |-> FALSE],
              [min |-> 0, max |-> 2, weights |-> 0..4, biased |-> TRUE]}

-----------------------------------------------------------------------------
(* meek_lite: writes that are combined and cut at a payload of 2, channels *)
(* of 2, another status, failures, pins and a chain that misses them.      *)

M(writes, down, scheme, utls, pinned, certs, status, fails) ==
  [writes |-> writes, down |-> down, scheme |-> scheme, utls |-> utls, pinned |-> pinned,
   certs |-> certs, status |-> status, fails |-> fails]
MeekCases == {M(<<1, 2, 1>>, 3, "http", TRUE, FALSE, {"other"}, FALSE, FALSE),
              M(<<3>>, 1, "https", TRUE, TRUE, {"pin", "other"}, TRUE, FALSE),
              M(<<1, 1>>, 1, "https", FALSE, FALSE, {"other"}, TRUE, TRUE)}

\* Connections: every argument of up to two characters that need escaping or not, in a username
\* that is long enough or is cut anywhere; requests cut short, refused and junk; each
\* outgoing proxy; the bridge's side.
C(app, methods, args, parse, proxy, target, broken) ==
  [side |-> "client", app |-> app, methods |-> methods, args |-> args, ulen |-> 6, parse |-> parse,
   proxy |-> proxy, target |-> target, broken |-> broken]
Words == UNION {[1..n -> {"\\", "=", ";", "a"}] : n \in 0..2}
Request == <<"greet", "auth", "connect", "data", "data">>
ConnectCases ==
  {C(Request, {"password", "none"}, <<<<k, v>>, <<<<"a">>, v>>>>, "ok", "none", "ipv4", FALSE) :
     k \in Words \ {<<>>}, v \in Words}
  \cup {C(<<"greet", cmd, "data">>, {"none"}, <<>>, parse, "socks4", target, TRUE) :
          cmd \in {"connect", "bind", "badaddress", "junk"}, parse \in {"ok", "error", "panic"},
          target \in {"ipv4", "name"}}
  \cup {C(<<"junk">>, {"none"}, <<>>, "ok", "http", "name", TRUE),
        C(Request, {"gssapi"}, <<>>, "ok", "http", "name", TRUE),
        [C(<<>>, {}, <<>>, "ok", "http", "name", TRUE) EXCEPT !.side = "bridge"]}

\* Starts: transports that share a file, one given an identity, bad parameters, transports
\* without a server, up to three starts and two faults.
U(side, boot, starts, ts, faults) ==
  [side |-> side, boot |-> boot, starts |-> starts, ts |-> ts, faults |-> faults]
None == [id |-> "none", ok |-> TRUE]
Both(a, b) == a :> None @@ b :> None
StartupCases ==
  {U("bridge", TRUE, <<Both("front", "tamaraw"), "front" :> None @@ "tamaraw" :> [None EXCEPT !.id = "given"],
                       Both("front", "tamaraw")>>, <<"front", "tamaraw">>, 2),
   U("bridge", TRUE, <<Both("obfs4", "meek_lite"), "obfs4" :> [None EXCEPT !.id = "partial"] @@ "meek_lite" :> None,
                       Both("obfs4", "meek_lite")>>, <<"obfs4", "meek_lite">>, 2),
   U("bridge", TRUE, <<"regulator" :> [id |-> "given", ok |-> FALSE] @@ "null" :> None,
                       Both("regulator", "null")>>, <<"regulator", "null">>, 1),
   U("client", TRUE, <<Both("front", "meek_lite")>>, <<"front", "meek_lite">>, 1),
   U("client", FALSE, <<Both("front", "null")>>, <<"front", "null">>, 0)}
=============================================================================
