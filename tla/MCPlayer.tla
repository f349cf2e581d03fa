------------------------------ MODULE MCPlayer -----------------------------
(* Four runs to watch.  "kept" is one the telemetry followed: two zones,     *)
(* calls that overlap, a handler that outlives its call, a call that is lost  *)
(* and one that is never answered, and two threads that noted down what a     *)
(* node reported in the wrong order.  "bare" ran with the telemetry off, its  *)
(* spans include one whose parent was not recorded, and nothing in it is      *)
(* DISSALy's own call.  "wide" is a role of five nodes in one zone.  On    *)
(* the worker of "busy" both cores are taken twice, by a task that came back   *)
(* and another one each time, and its disk fills up to three quarters.         *)
EXTENDS Player

LOCAL Node(name, zone, serves, cap, disk, crossed) ==
    [name |-> name, zone |-> zone, serves |-> serves, cap |-> cap, vcpu |-> 2,
     instance |-> IF cap = 1 THEN "small" ELSE "large", disk |-> disk, crossed |-> crossed]

LOCAL Call(id, parent, from, to, t0, t1, net, lost, arg) ==
    [id |-> id, parent |-> parent, vm |-> from, to |-> to, kind |-> "rpc", label |-> "Map",
     t0 |-> t0, t1 |-> t1, net |-> net, task |-> -1, lost |-> lost, ok |-> lost = Nobody,
     arg |-> arg, result |-> {}]

LOCAL Handler(id, parent, vm, label, t0, t1) ==
    [Call(id, parent, vm, Nobody, t0, t1, 0, Nobody, {}) EXCEPT
        !.kind = "handler", !.label = label]

LOCAL Event(kind, t, vm, key, value) ==
    [kind |-> kind, t |-> t, vm |-> vm, key |-> key, value |-> value]

LOCAL Pairs(n) == {[of |-> "pairs", size |-> n]}

Kept ==
    [nodes |-> <<Node("m0", 1, <<"Job">>, 4, 0, 1), Node("w1", 1, <<"Map", "Sort">>, 1, 3, 2),
                 Node("w2", 2, <<"Map", "Sort">>, 2, 1, 0)>>,
     spans |-> <<Handler(1, 0, "m0", RUN, 0, 8),
                 [Call(4, 1, "m0", "w2", 1, 6, 2, Nobody, Pairs(2)) EXCEPT !.result = Pairs(7)],
                  Handler(5, 4, "w2", "Map", 2, 7),
                 Call(2, 1, "m0", "w1", 1, 4, 1, Nobody, Pairs(5)), Handler(3, 2, "w1", "Map", 2, 3),
                 Call(6, 1, "m0", "w1", 5, 8, 2, "lost", {}),
                 Call(7, 5, "w2", "w1", 4, Open, 4, Nobody, {})>>,
     events |-> <<Event("state", 1, "w1", "seen", "one"), Event("state", 4, "w1", "seen", "three"),
                  Event("state", 3, "w1", "seen", "two"), Event("kill", 6, "w1", Nobody, Nobody),
                  Event("rpc_timeout", 8, "m0", Nobody, Nobody), Event("log", 7, "m0", Nobody, Nobody)>>,
     times |-> <<0, 2, 4, 6, 8>>,
     channels |-> (<<"m0", "alive">> :> <<1, 1, 1, 1, 1>> @@ <<"w1", "alive">> :> <<1, 1, 1, 0, 0>>
                @@ <<"w1", "diskMb">> :> <<0, 10000, 30000, 30000, 30000>>
                @@ <<"w1", "diskPct">> :> <<0, 250, 750, 750, 750>> @@ <<"w2", "busyPct">> :> <<0, 500, 500, 1000, 0>>
                @@ <<"m0", "bytesOutMb">> :> <<0, 2, 2, 2, 3>>
                @@ <<"w2", "bytesOutMb">> :> <<0, 0, 0, 0, 2>>),
     job |-> 7, entry |-> "m0"]

Bare ==
    [nodes |-> <<Node("m0", 1, <<"Job">>, 1, 0, 0), Node("w1", 1, <<"Map">>, 1, 2, 0)>>,
     spans |-> <<Call(1, 0, "m0", "w1", 0, 3, 1, Nobody, Pairs(1)), Handler(2, 1, "w1", "Map", 1, 2),
                 Handler(4, 3, "w1", "Map", 2, 4)>>,
     events |-> <<Event("oom", 4, "w1", Nobody, Nobody)>>,
     times |-> <<>>, channels |-> <<>>, job |-> 3, entry |-> Nobody]

Wide ==
    [nodes |-> <<Node("m0", 1, <<"Job">>, 1, 0, 0)>> \o
               [k \in 1..5 |-> Node(<<"w1", "w2", "w3", "w4", "w5">>[k], 1, <<"Map">>, k, 0, k)],
     spans |-> <<Handler(1, 0, "m0", RUN, 0, 4),
                 Call(2, 1, "m0", "w1", 0, 2, 2, Nobody, {[of |-> "messages", size |-> 4]}),
                 Handler(3, 2, "w1", "Map", 1, 2),
                 Call(4, 1, "m0", "w2", 3, 4, 1, Nobody, {[of |-> "messages", size |-> 4]})>>,
     events |-> <<Event("retry", 3, "m0", Nobody, Nobody)>>,
     times |-> <<0, 4>>,
     channels |-> (<<"w5", "bytesOutMb">> :> <<0, 4>> @@ <<"m0", "diskMb">> :> <<0, 0>>),
     job |-> 4, entry |-> "m0"]

LOCAL Doing(id, task, t0, t1) ==
    <<[Call(id, 1, "m0", "w1", t0, t1, 0, Nobody, {}) EXCEPT !.task = task],
      Handler(id + 1, id, "w1", "Map", t0, t1)>>

Busy ==
    [nodes |-> <<Node("m0", 1, <<"Job">>, 1, 0, 0), Node("w1", 1, <<"Map">>, 1, 3, 0)>>,
     spans |-> <<Handler(1, 0, "m0", RUN, 0, 8)>> \o Doing(2, 0, 1, 3) \o Doing(4, 1, 1, 3)
               \o Doing(6, 2, 5, 7) \o Doing(8, 1, 5, 7),
     events |-> <<>>, times |-> <<0, 2, 4, 6, 8>>,
     channels |-> (<<"w1", "busyPct">> :> <<0, 1000, 0, 1000, 0>>
                @@ <<"w1", "diskMb">> :> <<0, 29990, 29990, 30000, 30000>>
                @@ <<"w1", "diskPct">> :> <<0, 750, 750, 750, 750>>),
     job |-> 8, entry |-> "m0"]

LOCAL Line(bucket, what, of, amount) == [bucket |-> bucket, what |-> what, of |-> of, amount |-> amount]

Lines3(node) == <<Line("build", "services", Nobody, 12), Line("capacity", "node", node, 8),
                  Line("consumption", "egress", Nobody, 20)>>
Storage == <<Line("consumption", "storage", Nobody, 10)>>

MCHistory == [kept |-> Kept, bare |-> Bare, wide |-> Wide, busy |-> Busy]

LOCAL TheBill(lines) == [lines |-> lines, counted |-> <<"lost", "late", "filled">>, minimum |-> 2, sla |-> 3]
MCBill == [kept |-> TheBill(Lines3("w1") \o Storage), bare |-> TheBill(Lines3("w1") \o Storage),
           wide |-> TheBill(Lines3("w5")), busy |-> TheBill(Lines3("w1") \o Storage)]

Watched == [bare |-> Bare]
WatchedBill == [bare |-> TheBill(Lines3("w1") \o Storage)]

Followed == [kept |-> Kept]
FollowedBill == [kept |-> TheBill(Lines3("w1") \o Storage)]

Filling == [busy |-> Busy]
FillingBill == [busy |-> TheBill(Lines3("w1") \o Storage)]

MCServiceRank == {"Job"} :> 1 @@ {"Map"} :> 2 @@ {"Map", "Sort"} :> 3

MCNameRank == [name \in {"m0", "w1", "w2", "w3", "w4", "w5"} |->
    CHOOSE k \in 1..6 : <<"m0", "w1", "w2", "w3", "w4", "w5">>[k] = name]

MCBoxes == {<<1240, 560>>, <<280, 560>>}
=============================================================================
