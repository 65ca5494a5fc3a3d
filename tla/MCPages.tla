------------------------------ MODULE MCPages ------------------------------
(* Pages on a small instance: a form with an input, and one element more    *)
(* that scripts make.                                                       *)
EXTENDS Pages, TLC

CONSTANTS root, box, field, item

MCFirstTags == (root :> "html") @@ (box :> "form") @@ (field :> "input")
MCFirstChildren == (root :> <<box>>) @@ (box :> <<field>>) @@ (field :> <<>>)

AsLoaded ==
    /\ children = MCFirstChildren @@ (item :> <<>>) /\ tag[item] = None
    /\ focused = None /\ scrollFocus = None

Odd == fresh # Ids \/ \E id \in Ids : globals[id] = Other
NoIds == ~ Odd /\ \A n \in Nodes : idOf[n] = None

\* Bound: what is independent does not vary at once.  Time passes for the document
\* as it was loaded, and once there are timers only their passes run scripts
\* (what an onload does to the document, a timer would do).  With two timers scripts
\* arm, clear and compute, and leave the document and the network alone.
OnlyTimers ==
    /\ clock > 0 \/ nextHandle > 0 => AsLoaded /\ NoIds
    /\ nextHandle > 0 /\ task # None => task.kind = "tasks"
    /\ nextHandle = 2 => ~ dirty /\ (Running => entry.blocked = 0)

\* Ids are set, of two elements, by one kind of script, while nothing has the focus
\* and the form stays where it is; while a name is taken or behind, so does the
\* input.
OnlyIds ==
    /\ ~ NoIds => /\ focused = None /\ scrollFocus = None
                  /\ task # None => task.kind = "frame"
                  /\ parent[box] = root
    /\ Odd => parent[field] = box
    /\ idOf[root] = None /\ idOf[box] = None

\* The focus and the scrolled element do not meet, nor either of them the script of
\* an animation frame, which ends as a pass of tasks does; and what listeners of
\* submit prevent makes no difference.
OnlyFocus ==
    /\ scrollFocus # None => focused = None
    /\ task # None =>
        /\ task.kind = "frame" => focused = None /\ scrollFocus = None
        /\ task.kind = "submit" => ~ prevented

Bound == OnlyTimers /\ OnlyIds /\ OnlyFocus
=============================================================================
