---------------------------- MODULE SitePromise ----------------------------
(***************************************************************************)
(* What publishing a bundle promises a visitor: a request is answered      *)
(* unless the backend keeps it, and a file it is answered with is whole    *)
(* and comes from one bundle that was the site's at some moment while the  *)
(* request was under way.  Only a change of the site breaks an answer off. *)
(***************************************************************************)
CONSTANTS Requests,   \* requests for one app's hostname
          Sites       \* what may be published; whatever is there, or nothing

VARIABLES site,       \* what is published now
          seen,       \* per open request: what has been published since it came
          answer      \* per request: <<"none">>, <<"waiting">>, <<"forwarded">>,
                      \* <<"other">>, <<"cut">>, or <<"file", s>> for a file of s

pvars == <<site, seen, answer>>

PromiseInit == /\ site \in Sites
               /\ seen = [r \in Requests |-> {}]
               /\ answer = [r \in Requests |-> <<"none">>]

Pending(r) == answer[r] \in {<<"waiting">>, <<"forwarded">>}

Come(r) == /\ answer[r] = <<"none">>
           /\ answer' = [answer EXCEPT ![r] = <<"waiting">>]
           /\ seen' = [seen EXCEPT ![r] = {site}]
           /\ UNCHANGED site

Publish(s) == /\ site' = s
              /\ seen' = [r \in Requests |-> IF Pending(r)
                                             THEN seen[r] \cup {s} ELSE seen[r]]
              /\ UNCHANGED answer

\* To the backend, and back from it when it has no such page.
Forward(r) == /\ answer[r] = <<"waiting">>
              /\ answer' = [answer EXCEPT ![r] = <<"forwarded">>]
              /\ UNCHANGED <<site, seen>>

Back(r) == /\ answer[r] = <<"forwarded">>
           /\ answer' = [answer EXCEPT ![r] = <<"waiting">>]
           /\ UNCHANGED <<site, seen>>

\* With a file of one of those sites, or with something that is no file:
\* a redirect, the backend's word, or an error.  An answer may be cut off if the
\* site was not the same all along.
Replies(ss) == {<<"file", s>> : s \in ss} \cup {<<"other">>} \cup
               IF \E s, t \in ss : s # t THEN {<<"cut">>} ELSE {}

Reply(r) == /\ Pending(r)
            /\ \E a \in Replies(seen[r]) : answer' = [answer EXCEPT ![r] = a]
            /\ seen' = [seen EXCEPT ![r] = {}]
            /\ UNCHANGED site

PromiseNext == \/ \E r \in Requests : Come(r) \/ Forward(r) \/ Back(r) \/ Reply(r)
               \/ \E s \in Sites : Publish(s)

\* Whatever is answered is of what was there.
Truly == PromiseInit /\ [][PromiseNext]_pvars

Promise == /\ Truly
           /\ \A r \in Requests : WF_pvars(answer[r] = <<"waiting">> /\ Reply(r))
=============================================================================
