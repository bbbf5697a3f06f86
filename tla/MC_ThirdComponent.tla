-------------------------- MODULE MC_ThirdComponent --------------------------
(* Small instances of ThirdComponent for TLC. *)
EXTENDS ThirdComponent

CONSTANTS a, p1, p2

One(p) == [eps |-> {a}, probe |-> p]
NoEndpoints == [eps |-> {}, probe |-> p1]
Nothing == [specs |-> {One(p1)}, up |-> {{a}}, slots |-> 1, flips |-> 0, edits |-> 0,
            creates |-> 0, deletes |-> 0, faults |-> 0, events |-> 1]

\* A component with one endpoint or none, deleted at any time, and edited or with a
\* failing call; one whose endpoint goes up or down, with a failing call; one whose
\* probe is changed, so that two workers probe its endpoint; and one that is
\* created again, with a new worker once the old one has ended.
Some ==
    {[Nothing EXCEPT !.specs = {One(p1), NoEndpoints}, !.up = {{}, {a}}, !.deletes = 1,
                     !.edits = 1, !.faults = 1],
     [Nothing EXCEPT !.up = {{}, {a}}, !.flips = 1, !.faults = 1, !.events = 2],
     [Nothing EXCEPT !.specs = {One(p1), One(p2)}, !.slots = 2, !.edits = 1],
     [Nothing EXCEPT !.deletes = 1, !.creates = 1]}

\* An endpoint that comes up and goes down.
TwoFlips == {[Nothing EXCEPT !.up = {{}, {a}}, !.flips = 2, !.events = 2]}

\* The resource has just been created.
Created == {Empty}
==============================================================================
