------------------------------- MODULE Parts -------------------------------
(***************************************************************************)
(* The parts that do not interact, in one specification: which says whose  *)
(* state env and sys are, from the start.  Their lengths, groups and       *)
(* environments are the constants of this module.                          *)
(***************************************************************************)
EXTENDS Integers, Sequences

CONSTANTS LengthLength, BoxOverhead, PacketOverhead, MaximumSegmentLength, Obfs4Env,
          ReprLen, AuthLen, MarkLen, MacLen, SeedFrameLen, MaxHandshakeLength, NtorEnv,
          Modp, Gen, MaxPadding, MagicLen, Obfs3Env, Obfs2Env,
          SizeLen, MacLength, PktHdrLength, SuitHandshakeLength, MaxSegmentLength,
          SuitPayloadLength, FirstPad, SuitEnv,
          TicketLifetime, TicketsEnv,
          One, MaxValues, DistEnv,
          MeekPayloadLength, MaxRetries, MaxChanBacklog, MaxPollInterval, MeekEnv,
          ConnectEnv, StartupEnv

\* A full packet has room for data, the counter for a nonce, and the clocks show hours.
ASSUME PartsAssumption ==
  /\ {LengthLength, BoxOverhead, PacketOverhead, MaximumSegmentLength} \subseteq Nat
  /\ LengthLength + BoxOverhead + PacketOverhead < MaximumSegmentLength
  /\ \A v \in Obfs4Env : v.writes \in Seq(Nat) /\ v.counter \in Nat \ {0, 1}
  /\ {ReprLen, AuthLen, MarkLen, MacLen, SeedFrameLen, MaxHandshakeLength} \subseteq Nat
  /\ \A v \in NtorEnv : v.skew \in Int /\ v.hours \in Nat

VARIABLES which, env, sys
partsVars == <<which, env, sys>>

O4 == INSTANCE Obfs4 WITH Env <- Obfs4Env
NT == INSTANCE Ntor WITH Env <- NtorEnv
O3 == INSTANCE Obfs3 WITH Env <- Obfs3Env
O2 == INSTANCE Obfs2 WITH Env <- Obfs2Env
SS == INSTANCE ScrambleSuit WITH MaxHandshakeLength <- SuitHandshakeLength,
                                 MaxPayloadLength <- SuitPayloadLength, Env <- SuitEnv
TK == INSTANCE Tickets WITH Env <- TicketsEnv
WD == INSTANCE WeightedDist WITH Env <- DistEnv
MK == INSTANCE Meek WITH MaxPayloadLength <- MeekPayloadLength, Env <- MeekEnv
CN == INSTANCE Connect WITH Env <- ConnectEnv
SU == INSTANCE Startup WITH Env <- StartupEnv

-----------------------------------------------------------------------------
PartsInit == \/ which = "obfs4" /\ O4!Init
             \/ which = "ntor" /\ NT!Init
             \/ which = "obfs3" /\ O3!Init
             \/ which = "obfs2" /\ O2!Init
             \/ which = "scramblesuit" /\ SS!Init
             \/ which = "tickets" /\ TK!Init
             \/ which = "dist" /\ WD!Init
             \/ which = "meek" /\ MK!Init
             \/ which = "connect" /\ CN!Init
             \/ which = "startup" /\ SU!Init

Part(name, A) == which = name /\ A /\ UNCHANGED which
PartsNext == \/ Part("obfs4", O4!Next)
             \/ Part("ntor", NT!Next)
             \/ Part("obfs3", O3!Next)
             \/ Part("obfs2", O2!Next)
             \/ Part("scramblesuit", SS!Next)
             \/ Part("tickets", TK!Next)
             \/ Part("dist", WD!Next)
             \/ Part("meek", MK!Next)
             \/ Part("connect", CN!Next)
             \/ Part("startup", SU!Next)

\* The fairness of Meek: see there.
PartsSpec == /\ PartsInit /\ [][PartsNext]_partsVars
             /\ WF_partsVars(Part("meek", MK!Writer)) /\ WF_partsVars(Part("meek", MK!Reader))
             /\ WF_partsVars(Part("meek", MK!Worker)) /\ SF_partsVars(Part("meek", MK!TakeClose))

-----------------------------------------------------------------------------
(* Properties: those of the parts. *)

\* Two ends that completed a handshake hold the same keys and know the same parameters
\* (ntor, UniformDH, and the seeds of obfs2), whatever was lost, padded or refused; a meek
\* client that has pins talks to nobody whose chain misses them (dialTLS).
KeysAgree == /\ which = "ntor" => NT!KeysAgree
             /\ which = "obfs3" => O3!KeysAgree
             /\ which = "obfs2" => O2!KeysAgree
             /\ which = "scramblesuit" => SS!KeysAgree
             /\ which = "meek" => MK!PinsHold

\* What one end decodes is what the other encoded, in order and each byte once, however the
\* network cuts it (framing Decode, the readers of obfs2, obfs3 and ScrambleSuit, ioWorker).
InStep == /\ which = "obfs4" => O4!InStep
          /\ which = "obfs3" => O3!InStep
          /\ which = "obfs2" => O2!InStep
          /\ which = "scramblesuit" => SS!InStep
          /\ which = "meek" => MK!InOrder

\* No nonce is used twice, not even when the counter has run through all its values (boxNonce).
NonceFresh == which = "obfs4" => O4!NonceFresh

\* A burst ends where the sampled length says, except where padBurst is known to miss it.
PaddedTo == /\ which = "obfs4" => O4!PaddedTo
            /\ which = "scramblesuit" => SS!PaddedTo

\* A client that holds the bridge's certificate is refused only if the clocks, and the hours
\* that pass meanwhile, put them more than an hour apart, or if the hour strikes while the
\* bridge tries its three hours (parseClientHandshake).
RefusedOnlyIfSkewed == which = "ntor" => NT!RefusedOnlyIfSkewed

\* No session ticket is sent twice, through crashes and failed writes of the file (getTicket).
TicketsOnce == which = "tickets" => TK!TicketsOnce

\* The alias tables give every value its weight (genTables, Sample).
SampledAsWeighted == which = "dist" => WD!SampledAsWeighted

\* The handler splices exactly the connection that was asked for (Handshake, clientHandler).
RequestExact == which = "connect" => CN!RequestExact

\* Through crashes and failed writes a bridge never publishes a fresh identity once it has
\* published one (jsonServerStateFromFile, WriteJSONServerState).
IdentityKept == which = "startup" => SU!IdentityKept

\* A closed meek connection ends with all its goroutines unless the worker is stuck on a full
\* channel that nobody reads (ioWorker, copyLoop).
EndsUnlessStuck == (which = "meek" /\ sys.closed) ~> (which = "meek" => MK!AllEnded \/ MK!Stuck)
=============================================================================
