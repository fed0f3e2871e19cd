---------------------------- MODULE MCFullScan -----------------------------
(***************************************************************************)
(* Instances of FullScan: a healthy target, and targets that differ from   *)
(* it in what one of the diagnostics looks at.  Ages lie on both sides of  *)
(* every threshold, and at the ages that rounding lifts to one.            *)
(***************************************************************************)
EXTENDS FullScan

MCHealthy ==
    [ages |-> {1000}, tables |-> TRUE,
     backends |-> {[state |-> "active", lock |-> FALSE, mine |-> TRUE]},
     crowded |-> FALSE, reads_all_stats |-> FALSE,
     buckets_access |-> "select", buckets_rls |-> TRUE, bucket_policies |-> TRUE,
     buckets |-> {"private"}, visible |-> {"private"}, object_policies |-> TRUE,
     installed |-> TRUE, queries |-> {[mean |-> "fast", mine |-> TRUE]}]

Ages == {{}} \cup {{a} : a \in {399899999, 399900000, 400000000, 1000000000, 1599900000, 2000000000}}
Other(state, lock) == [state |-> state, lock |-> lock, mine |-> FALSE]
Own(state, lock) == [state |-> state, lock |-> lock, mine |-> TRUE]
Sessions == {{Own("active", FALSE), Other("active", FALSE)},
             {Own("active", TRUE), Other("idle in transaction", FALSE)},
             {Own("active", FALSE), Other("active", TRUE)},
             {Own("idle in transaction", FALSE), Other("active", FALSE)}}
Profiles == {{}, {[mean |-> "fast", mine |-> FALSE]},
             {[mean |-> "slow", mine |-> TRUE], [mean |-> "fast", mine |-> FALSE]},
             {[mean |-> "stalled", mine |-> FALSE]}}

(* What row security lets the role see of the buckets. *)
Storages ==
    {t \in {[MCHealthy EXCEPT !.buckets_access = a, !.buckets_rls = r, !.bucket_policies = p,
                              !.buckets = b, !.visible = v, !.object_policies = o] :
               a \in {"absent", "hidden", "listed", "select"}, r \in BOOLEAN, p \in BOOLEAN,
               b \in {{}, {"public"}, {"private", "public"}}, v \in {{}, {"public"}}, o \in BOOLEAN} :
        /\ t.visible \subseteq t.buckets
        /\ t.buckets_access # "select" => t.visible = {} /\ t.buckets_rls /\ ~t.object_policies
        /\ t.buckets_access = "absent" => t.buckets = {} /\ ~t.bucket_policies
        /\ ~t.buckets_rls => t.visible = t.buckets
        /\ t.buckets_rls /\ ~t.bucket_policies => t.visible = {}}

MCTargets ==
    {MCHealthy, [MCHealthy EXCEPT !.tables = FALSE], [MCHealthy EXCEPT !.installed = FALSE]}
    \cup {[MCHealthy EXCEPT !.ages = a] : a \in Ages}
    \cup {[MCHealthy EXCEPT !.backends = s, !.reads_all_stats = b, !.crowded = ~b] :
             s \in Sessions, b \in BOOLEAN}
    \cup {[MCHealthy EXCEPT !.backends = s] : s \in Sessions}
    \cup {[MCHealthy EXCEPT !.queries = q] : q \in Profiles}
    \cup Storages
============================================================================
