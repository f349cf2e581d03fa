------------------------------ MODULE MCAuthor ------------------------------
(***************************************************************************)
(* Instances of Author: a job and a service in two files, two instance      *)
(* types, two regions on one continent and one across an ocean, and the     *)
(* files that are in the lab at first.                                      *)
(***************************************************************************)
EXTENDS Author, TLC

Services == <<
    [file |-> "Main", service |-> JOB, entry |-> TRUE,
     rpcs |-> <<[name |-> "Run", idempotent |-> FALSE]>>],
    [file |-> "Worker", service |-> "work", entry |-> FALSE,
     rpcs |-> <<[name |-> "get", idempotent |-> TRUE], [name |-> "put", idempotent |-> FALSE]>>]>>

Instances == <<[name |-> "m5.large", perHour |-> 2], [name |-> "c5.large", perHour |-> 1]>>

Regions == <<
    [name |-> "east", continent |-> "here",  zones |-> <<"east-a", "east-b">>],
    [name |-> "far",  continent |-> "there", zones |-> <<"far-a">>]>>

file(specs) == [scale |-> Nothing, net |-> [k \in NETS |-> Nothing], nodes |-> specs, retries |-> <<>>,
               simulatedDuration |-> {},
               input |-> [source |-> Nothing, unit |-> "item", count |-> 1]]

node(name, runs) ==
    [name |-> name, instance |-> "m5.large", zone |-> <<"east-a">>, count |-> Nothing,
     prefix |-> Nothing, runs |-> runs, memoryMb |-> Nothing, diskMb |-> Nothing,
     failures |-> <<>>, overrides |-> <<>>]

runs(s) == [service |-> s.service, file |-> s.file, failures |-> <<>>]

fails(kind) == [kind |-> kind, factor |-> Nothing, other |-> Nothing, per |-> Nothing,
                at |-> Nothing, for |-> Nothing, notice |-> Nothing, restartAfter |-> Nothing]

exception(name, failures) ==
    [node |-> name, instance |-> Nothing, zone |-> "far-a", memoryMb |-> 0, diskMb |-> Nothing,
     failures |-> failures]

entry == node(<<"e", <<>>>>, <<runs(Services[1])>>)

workers(over) ==
    [node(<<"w", <<>>>>, <<[runs(Services[2]) EXCEPT !.failures =
                        <<[rpc |-> "get", kind |-> "status", per |-> 2,
                           status |-> "UNAVAILABLE", factor |-> Nothing]>>]>>) EXCEPT
        !.count = 2, !.zone = <<"east-a", "east-b">>, !.memoryMb = 1,
        !.failures = <<[fails("partition") EXCEPT !.at = 1, !.other = <<"e", <<>>>>],
                       [fails("freeze") EXCEPT !.per = 1, !.for = 1]>>,
        !.overrides = <<exception(<<"w", <<0>>>>, over)>>]

\* Files of the lab: one with failures in an exception, a retry and a price, and
\* one whose exception says that nothing fails.
Busy == [file(<<entry, workers(<<[fails("kill") EXCEPT !.at = 1]>>)>>) EXCEPT
            !.retries = <<[method |-> <<"work", "get">>, attempts |-> 2, backoff |-> 1,
                           multiplier |-> Nothing, unsafe |-> FALSE]>>,
            !.simulatedDuration = {[runs |-> "Worker", rpc |-> "get", fixed |-> 1, perUnit |-> 0]}]
Quiet == file(<<entry, workers(<<>>)>>)

BusyLab  == "busy" :> Busy
QuietLab == "quiet" :> Quiet

Names2 == {<<"w", <<>>>>, <<"w", <<0>>>>, <<"e", <<>>>>}
=============================================================================
