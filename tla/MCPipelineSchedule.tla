------------------------- MODULE MCPipelineSchedule --------------------------
(* Instances of PipelineSchedule for TLC. *)
EXTENDS PipelineSchedule, TLC

Cap(k, s, v, kind) == [key |-> k, source |-> s, cols |-> ("open" :> v), kind |-> kind]

\* Two events, k1 captured three times (once by hand, from another source) and
\* k2 twice, and a capture of k2 that does not validate.
Healthy ==
    [a1 |-> Cap("k1", "eonet", 1, "valid"), a2 |-> Cap("k1", "eonet", 0, "valid"),
     a3 |-> Cap("k1", "manual", 1, "valid"), b1 |-> Cap("k2", "eonet", 1, "valid"),
     b2 |-> Cap("k2", "manual", 0, "valid"), bad |-> Cap("k2", "eonet", 0, "invalid")]

\* One valid capture and two that do not validate.
Damaged ==
    [a1 |-> Cap("k1", "eonet", 1, "valid"), bad |-> Cap("k2", "eonet", 0, "invalid"),
     bad2 |-> Cap("k2", "manual", 1, "invalid")]

\* One valid capture and one that raises.
Poisoned ==
    [a1 |-> Cap("k1", "eonet", 1, "valid"), worse |-> Cap("k2", "eonet", 0, "poison")]

HealthyIds == DOMAIN Healthy
DamagedIds == DOMAIN Damaged
PoisonedIds == DOMAIN Poisoned

Empty == {[raws |-> {}, proc |-> {}]}

N == INSTANCE EventNormalisation

\* An event with one point per time zone of `zones`, at coordinates `c`.
Payload(zones, c) ==
    [id |-> "text", title |-> "text", categories |-> <<"text">>,
     geometry |-> [i \in DOMAIN zones |->
                     [date |-> [zone |-> zones[i], at |-> i], coords |-> c]],
     closed |-> "null"]

\* Each of the kinds of capture above is what some payload comes to, and one
\* that ingestion accepts.
ASSUME KindsOccur ==
    LET sound == Payload(<<"aware">>, "in")
        offTheEarth == Payload(<<"aware">>, "out")
        mixedDates == Payload(<<"aware", "naive">>, "in")
    IN  /\ \A p \in {sound, offTheEarth, mixedDates} : N!Ingestible(p)
        /\ N!Validates(N!Clean(sound))
        /\ ~N!TransformRaises(N!Clean(sound)) /\ N!Fits(N!Transform(N!Clean(sound)))
        /\ ~N!ValidationRaises(N!Clean(offTheEarth))
        /\ ~N!Validates(N!Clean(offTheEarth))
        /\ N!Validates(N!Clean(mixedDates))
        /\ N!TransformRaises(N!Clean(mixedDates))
=============================================================================
