------------------------------- MODULE Pages -------------------------------
(***************************************************************************)
(* A page that is shown: its document (src/dom.c), what its scripts do to  *)
(* it through the bridge (src/js.c), and the handlers of its events        *)
(* (src/browser.c), which run scripts in their middle.                     *)
(*                                                                         *)
(* A handler starts when none runs.  Where it enters JavaScript the script *)
(* takes any number of steps, each a call of the bridge, and the handler   *)
(* goes on with what the script has left.  task says where it is.          *)
(*                                                                         *)
(* Abstracted: text, styles and geometry; which node a point hits is a     *)
(* choice among those laid out.  What a click asks of its tab (a load or a *)
(* fragment) is in Windows and TabHistory, a page that is still loading in *)
(* PageLoads, its requests in XhrJobs.  A frame that cannot be rebuilt for *)
(* lack of memory ends the program.                                        *)
(***************************************************************************)
EXTENDS JsRuntime

CONSTANTS
    Nodes,          \* identities for the elements ever made
    Root,           \* the document's root element
    FirstTags,      \* the elements of the document as loaded, with tags
    FirstChildren,  \* their children
    NewTags,        \* bound: the tags of elements that scripts make
    Scrollers,      \* blocks with scrollable overflow
    Ids,            \* values of the attribute id
    Other,          \* what a name of window holds that is not the browser's
    MaxDepth        \* TAI_DOM_MAX_DEPTH

Tags == {"html", "form", "input", "button", "a", "div"}

ASSUME PagesAssumption ==
    /\ IsFiniteSet(Nodes) /\ Root \in DOMAIN FirstTags /\ None \notin Nodes
    /\ DOMAIN FirstTags \subseteq Nodes
    /\ \A n \in DOMAIN FirstTags : FirstTags[n] \in Tags
    /\ DOMAIN FirstChildren = DOMAIN FirstTags
    /\ \A n \in DOMAIN FirstTags : FirstChildren[n] \in Seq(DOMAIN FirstTags)
    /\ NewTags \subseteq Tags /\ Scrollers \subseteq Nodes
    /\ None \notin Tags /\ None \notin Ids
    /\ Other \notin Nodes /\ Other # None
    /\ MaxDepth \in Nat

\* Where a handler is: what it is about, the scroll container it found and
\* whether it changed something before its listeners.
Handlers == [kind : {"click", "submit", "keydown", "frame", "tasks"},
             target : Nodes \cup {None}, candidate : Nodes \cup {None},
             changed : BOOLEAN]

ASSUME NoneAssumption == None \notin Handlers

\* The parser hands over a tree.
ASSUME FirstTreeAssumption ==
    /\ \A n \in DOMAIN FirstTags : IsInjective(FirstChildren[n])
    /\ \A n, m \in DOMAIN FirstTags :
           n # m => ToSet(FirstChildren[n]) \cap ToSet(FirstChildren[m]) = {}
    /\ \E level \in [DOMAIN FirstTags -> 0..Cardinality(Nodes)] :
           \A n \in DOMAIN FirstTags : \A c \in ToSet(FirstChildren[n]) :
               level[n] < level[c]

VARIABLES
    tag,            \* the tag of each element made so far
    parent,         \* node->parent
    children,       \* node->children
    idOf,           \* the attribute id
    globals,        \* what window has under the name of each id: an element
                    \* for the variable that ID_GLOBALS has, Other or nothing
    fresh,          \* for the properties: the names that are as the last resync
                    \* left them, if it was not cut short
    focused,        \* page->focused
    scrollFocus,    \* page->scroll_focus
    dirty,          \* page->dirty
    frame,          \* what layout and display list were made from
    task            \* the handler that is running, up to where it is

domVars  == <<tag, parent, children, idOf>>
idVars   == <<globals, fresh>>
pageVars == <<focused, scrollFocus, dirty, frame>>
vars == <<jsVars, domVars, idVars, pageVars, task>>

-----------------------------------------------------------------------------
(* The document.                                                           *)

Made == {n \in Nodes : tag[n] # None}

\* A node and its ancestors: what is in every set that holds the node and,
\* with a node, its parent.
Upward(n) ==
    {set \in SUBSET Nodes :
        n \in set /\ \A m \in set : parent[m] # None => parent[m] \in set}
Chain(n) == LET sets == Upward(n) IN {m \in Nodes : \A set \in sets : m \in set}

Below(n) == {m \in Made : n \in Chain(m)}
Depth(n) == Cardinality(Chain(n)) - 1

\* fits_below: the levels under a node.
Levels(n) == Max({Depth(m) : m \in Below(n)}) - Depth(n)

\* The innermost of a node and its ancestors that is one of these, or None.
Nearest(n, these) ==
    LET found == Chain(n) \cap these
    IN  IF found = {} THEN None
        ELSE CHOOSE m \in found : found \subseteq Chain(m)

\* node_connected.  A script may put the root itself into an element that is
\* in no document: the document is still what is below the root.
Connected(n) == {m \in Chain(n) : parent[m] = None} = {Root}
InDocument(n) == Root \in Chain(n)

\* Document order.
Precedes(n, m) ==
    \/ n # m /\ n \in Chain(m)
    \/ \E p \in Made : \E i, j \in DOMAIN children[p] :
           i < j /\ children[p][i] \in Chain(n) /\ children[p][j] \in Chain(m)

\* collect_ids: the first element of the document for each id.
FirstWithId(id) ==
    LET all   == {n \in Made : idOf[n] = id /\ InDocument(n)}
        first == {n \in all : \A m \in all \ {n} : Precedes(n, m)}
    IN  IF first = {} THEN None ELSE CHOOSE n \in first : TRUE

Shown == [nodes |-> Below(Root), focus |-> focused]

Detached(p, c) ==
    RemoveAt(children[p], CHOOSE i \in DOMAIN children[p] : children[p][i] = c)

Orders(set) == {s \in [1..Cardinality(set) -> set] : IsInjective(s)}

TypeOK ==
    /\ JsTypeOK
    /\ tag \in [Nodes -> Tags \cup {None}]
    /\ parent \in [Nodes -> Made \cup {None}]
    /\ \A n \in Nodes : /\ IsInjective(children[n])
                        /\ ToSet(children[n]) = {m \in Made : parent[m] = n}
    /\ \A n \in Nodes : parent[n] # None => n \notin Chain(parent[n])
    /\ idOf \in [Nodes -> Ids \cup {None}]
    /\ globals \in [Ids -> Made \cup {None, Other}] /\ fresh \subseteq Ids
    /\ focused \in Made \cup {None} /\ scrollFocus \in Made \cup {None}
    /\ dirty \in BOOLEAN
    /\ frame.nodes \subseteq Made
    /\ task \in Handlers \cup {None}

Init ==
    /\ JsInit
    /\ tag = [n \in Nodes |->
                IF n \in DOMAIN FirstTags THEN FirstTags[n] ELSE None]
    /\ children = [n \in Nodes |->
                IF n \in DOMAIN FirstTags THEN FirstChildren[n] ELSE <<>>]
    /\ parent = [n \in Nodes |->
                LET above == {p \in Nodes : n \in ToSet(children[p])}
                IN  IF above = {} THEN None ELSE CHOOSE p \in above : TRUE]
    /\ idOf \in [Nodes -> Ids \cup {None}]
    /\ \A n \in Nodes \ Made : idOf[n] = None
    /\ \E taken \in SUBSET Ids :
           globals = [id \in Ids |-> IF id \in taken THEN Other ELSE FirstWithId(id)]
    /\ fresh = Ids
    /\ focused = None /\ scrollFocus = None
    /\ dirty = FALSE
    /\ frame = Shown
    /\ task = None

-----------------------------------------------------------------------------
(* The bridge: what a running script does to the document.                 *)

\* sync_id_globals of runtime.js, to its end.  A name that is taken, by what
\* the language or a script has there, stays as it is.
Synced ==
    /\ globals' = [id \in Ids |-> IF globals[id] = Other THEN Other
                                  ELSE FirstWithId(id)']
    /\ fresh' = Ids

Variables == {id \in Ids : globals[id] \notin {None, Other}}
Listed    == {id \in Ids : FirstWithId(id) # None}

\* ... and cut short: before the last of the old variables is deleted, or of the
\* new ones made.  One of lefts may be left in window but not in ID_GLOBALS.
HalfSynced(lefts) ==
    /\ \/ \E deleted \in SUBSET Variables :
              globals' = [id \in Ids |-> IF id \in deleted THEN None
                                         ELSE globals[id]]
       \/ \E left \in (lefts \cap Listed') \cup {None} :
          \E made \in SUBSET (Listed' \ {left}) :
              globals' = [id \in Ids |->
                  IF globals[id] = Other \/ id = left THEN Other
                  ELSE IF id \in made THEN FirstWithId(id)' ELSE None]
    /\ fresh' = {}

\* after_mutation.  The resync is an entry of its own inside the script's.  When
\* it fails, for lack of memory, that is reported and the script goes on; when
\* the interrupt hits it, the script stops as well.
AfterMutation(idsMayChange) ==
    /\ dirty' = TRUE
    /\ \/ /\ ~ idsMayChange
          /\ UNCHANGED <<idVars, entry, prevented>>
       \/ /\ idsMayChange
          /\ Synced \/ HalfSynced(Ids)
          /\ entry' = Enter(entry)
          /\ UNCHANGED prevented
       \/ /\ idsMayChange /\ Late
          /\ HalfSynced({})
          /\ Abort
    /\ UNCHANGED <<clock, timerVars, pass, scrollFocus, frame, task>>

LosesOwnFocusOnly(removed) == focused \in removed

\* node_removed of the page: the focus was in one of the subtrees.
LosesFocus(removed) == focused # None /\ Chain(focused) \cap removed # {}

Blurs(removed) ==
    focused' = IF LosesFocus(removed) THEN None ELSE focused

CreateElement(n, t) ==
    /\ Running /\ tag[n] = None
    /\ tag' = [tag EXCEPT ![n] = t]
    /\ UNCHANGED <<jsVars, parent, children, idOf, idVars, pageVars, task>>

\* TAI_DOM_CYCLE is what tai_node_insert_before returns otherwise.
KeepsTree(p, c) == c \notin Chain(p)

MayInsert(p, c) ==
    /\ KeepsTree(p, c)
    /\ Depth(p) + 1 <= MaxDepth
    /\ Levels(c) <= MaxDepth - Depth(p) - 1

\* tai_node_insert_before and insert: appendChild when ref is None.
InsertBefore(p, c, ref) ==
    /\ Running
    /\ ref # None => ref # c /\ parent[ref] = p
    /\ MayInsert(p, c)
    /\ LET without == [n \in Nodes |-> IF n = parent[c] THEN Detached(n, c)
                                       ELSE children[n]]
           at == IF ref = None THEN Len(without[p]) + 1
                 ELSE CHOOSE i \in DOMAIN without[p] : without[p][i] = ref
       IN  children' = [without EXCEPT ![p] = InsertAt(@, at, c)]
    /\ parent' = [parent EXCEPT ![c] = p]
    /\ Blurs(IF parent[c] # None THEN {c} ELSE {})
    /\ UNCHANGED <<tag, idOf>>
    /\ AfterMutation(TRUE)

RemoveChild(p, c) ==
    /\ Running /\ parent[c] = p
    /\ parent' = [parent EXCEPT ![c] = None]
    /\ children' = [children EXCEPT ![p] = Detached(p, c)]
    /\ Blurs({c})
    /\ UNCHANGED <<tag, idOf>>
    /\ AfterMutation(TRUE)

\* The old children of p become detached trees, the new ones are its children.
ReplaceChildren(p, new) ==
    LET old == ToSet(children[p])
    IN  /\ parent' = [n \in Nodes |-> IF n \in old THEN None
                                      ELSE IF n \in ToSet(new) THEN p
                                      ELSE parent[n]]
        /\ children' = [children EXCEPT ![p] = new]
        /\ Blurs(old)

\* op_inner_html_set; the fragment's elements are siblings here.
SetInnerHtml(p, new) ==
    /\ Running
    /\ ToSet(new) \cap Made = {}
    /\ new # <<>> => Depth(p) + 1 <= MaxDepth
    /\ ReplaceChildren(p, new)
    /\ \E tags \in [ToSet(new) -> NewTags],
          ids \in [ToSet(new) -> Ids \cup {None}] :
        /\ tag'  = [n \in Nodes |-> IF n \in ToSet(new) THEN tags[n] ELSE tag[n]]
        /\ idOf' = [n \in Nodes |-> IF n \in ToSet(new) THEN ids[n] ELSE idOf[n]]
    /\ AfterMutation(TRUE)

SetTextWithoutResync(p) ==
    /\ Running
    /\ ReplaceChildren(p, <<>>)
    /\ UNCHANGED <<tag, idOf>>
    /\ AfterMutation(FALSE)

\* op_text_content_set of an element: no id can be gone if it had no child.
SetTextContent(p) ==
    /\ Running
    /\ ReplaceChildren(p, <<>>)
    /\ UNCHANGED <<tag, idOf>>
    /\ AfterMutation(children[p] # <<>>)

\* op_set_attribute, of the id and of any other attribute.
SetId(n, id) ==
    /\ Running
    /\ idOf' = [idOf EXCEPT ![n] = id]
    /\ UNCHANGED <<tag, parent, children, focused>>
    /\ AfterMutation(TRUE)

SetAttribute ==
    /\ Running
    /\ UNCHANGED <<domVars, focused>>
    /\ AfterMutation(FALSE)

\* A script assigns to window's property by the name of an id, or deletes it.
\* Left out: the variable of ID_GLOBALS put back, properties that throw.
SetGlobal(id) ==
    /\ Running
    /\ \E value \in {None, Other} : globals' = [globals EXCEPT ![id] = value]
    /\ fresh' = fresh \ {id}
    /\ UNCHANGED <<jsVars, domVars, pageVars, task>>

BridgeCall ==
    \/ \E n \in Nodes, t \in NewTags : CreateElement(n, t)
    \/ \E p, c \in Made : \/ RemoveChild(p, c)
                          \/ \E ref \in Made \cup {None} : InsertBefore(p, c, ref)
    \/ \E p \in Made : \/ SetTextContent(p)
                       \/ \E set \in SUBSET (Nodes \ Made) :
                          \E new \in Orders(set) : SetInnerHtml(p, new)
                       \/ \E id \in Ids \cup {None} : SetId(p, id)
    \/ SetAttribute
    \/ \E id \in Ids : SetGlobal(id)

\* What it does to nothing but the runtime; an event is there in a dispatch.
OtherStep ==
    /\ Running
    /\ \/ ScriptStep
       \/ task.kind \in {"click", "submit", "keydown"} /\ PreventDefault
    /\ UNCHANGED <<domVars, idVars, pageVars, task>>

-----------------------------------------------------------------------------
(* The handlers.                                                           *)

Idle == task = None
Returned == task # None /\ ~ Running

\* rebuild_dirty_page
Rebuild ==
    /\ dirty' = FALSE
    /\ frame' = [nodes |-> Below(Root), focus |-> focused']

Settled == IF dirty THEN Rebuild ELSE UNCHANGED <<dirty, frame>>

FinishIfChanged(changed) ==
    /\ task' = None
    /\ IF changed THEN Rebuild ELSE UNCHANGED <<dirty, frame>>

\* How every handler ends.  changed: something no script did.
Finish(changed) ==
    /\ task' = None
    /\ IF dirty \/ changed THEN Rebuild ELSE UNCHANGED <<dirty, frame>>

Dispatch(kind, target, candidate, changed) ==
    /\ EnterJs
    /\ task' = [kind |-> kind, target |-> target, candidate |-> candidate,
                changed |-> changed]
    /\ UNCHANGED <<clock, timerVars, pass>>

\* tai_page_activate_viewport up to the listeners of the click.
Click ==
    /\ Idle
    /\ scrollFocus' = None /\ focused' = None
    /\ \/ \* nothing is there
          /\ Finish(focused # None)
          /\ UNCHANGED jsVars
       \/ /\ Settled
          /\ \E target \in frame'.nodes :
                 Dispatch("click", target,
                          Nearest(target, Scrollers \cap Below(Root)),
                          focused # None)
    /\ UNCHANGED <<domVars, idVars>>

Elements(t) == {n \in Nodes : tag[n] = t}

\* A form needs an action, which scripts may set and remove.
FormOf(n) == Nearest(n, Elements("form"))

\* submit_form: the listeners of the form, then the load it asks for, unless
\* prevented.
Submit(changed) ==
    /\ Dispatch("submit", None, None, changed)
    /\ UNCHANGED <<dirty, frame, focused>>

\* What a click does to an input: a checkbox is toggled wherever it is, any
\* other input gets the focus if it still is in the document.
ClickInput(n) ==
    /\ \/ UNCHANGED focused
       \/ Connected(n) /\ focused' = n
    /\ Finish(TRUE)

\* ... and to anything else.  A fragment link scrolls the page.
ClickOther ==
    \E fragment \in BOOLEAN :
        /\ UNCHANGED focused
        /\ Finish(task.changed \/ fragment)

\* tai_page_activate_viewport after the listeners, on the document they left.
ClickDefault ==
    /\ Returned /\ task.kind = "click"
    /\ IF prevented
       THEN /\ UNCHANGED <<focused, scrollFocus>>
            /\ EndDispatch
            /\ Finish(task.changed)
       ELSE LET button == Nearest(task.target, Elements("button"))
                input  == Nearest(task.target, Elements("input"))
            IN  /\ scrollFocus' = task.candidate
                /\ \/ /\ button # None /\ FormOf(button) # None
                      /\ Submit(task.changed)
                   \/ /\ button # None
                      /\ UNCHANGED focused
                      /\ EndDispatch
                      /\ Finish(task.changed)
                   \/ /\ button = None
                      /\ IF input # None THEN ClickInput(input) ELSE ClickOther
                      /\ EndDispatch
    /\ UNCHANGED <<domVars, idVars>>

SubmitDefault ==
    /\ Returned /\ task.kind = "submit"
    /\ UNCHANGED <<domVars, idVars, focused, scrollFocus>>
    /\ EndDispatch
    /\ Finish(task.changed)

\* tai_page_text_input up to the listeners of keydown.
TextInput ==
    /\ Idle /\ focused # None
    /\ Dispatch("keydown", None, None, FALSE)
    /\ UNCHANGED <<domVars, idVars, pageVars>>

\* A listener may have removed the input and so taken its focus away.
TextInputDefault ==
    /\ Returned /\ task.kind = "keydown"
    /\ UNCHANGED <<domVars, idVars, focused, scrollFocus>>
    /\ EndDispatch
    /\ Finish(~ prevented /\ focused # None)

\* tai_page_key: Return in a form submits it; the other keys edit.
Key ==
    /\ Idle /\ focused # None
    /\ \/ /\ parent[focused] # None /\ FormOf(parent[focused]) # None
          /\ Submit(FALSE)
       \/ /\ UNCHANGED <<jsVars, focused, task>>
          /\ Rebuild
    /\ UNCHANGED <<domVars, idVars, scrollFocus>>

\* tai_page_blur_input
BlurInput ==
    /\ Idle
    /\ scrollFocus' = None /\ focused' = None
    /\ IF focused # None THEN Rebuild ELSE UNCHANGED <<dirty, frame>>
    /\ UNCHANGED <<jsVars, domVars, idVars, task>>

\* tai_page_scroll_by: scrolls the container that was clicked, or no longer if
\* it is not laid out as one.
ScrollBy ==
    /\ Idle
    /\ UNCHANGED <<jsVars, domVars, idVars, focused, task>>
    /\ \/ scrollFocus \in Below(Root) /\ Rebuild /\ UNCHANGED scrollFocus
       \/ Settled /\ scrollFocus' = None

\* resize_body makes the layout anew, but not the styles.
Resize ==
    /\ Idle
    /\ frame' = Shown
    /\ UNCHANGED <<jsVars, domVars, idVars, focused, scrollFocus, dirty, task>>

AnimationFrame ==
    /\ Idle
    /\ Dispatch("frame", None, None, FALSE)
    /\ UNCHANGED <<domVars, idVars, pageVars>>

EndFrame ==
    /\ Returned /\ task.kind = "frame"
    /\ UNCHANGED <<jsVars, domVars, idVars, focused, scrollFocus>>
    /\ Finish(FALSE)

\* tai_page_run_tasks: the onloads, the timers that are due, then the frame.
RunTasks ==
    /\ Idle
    /\ BeginPass
    /\ task' = [kind |-> "tasks", target |-> None, candidate |-> None,
                changed |-> FALSE]
    /\ UNCHANGED <<domVars, idVars, pageVars>>

Onload ==
    /\ Returned /\ task.kind = "tasks" /\ pass.left = Budget
    /\ EnterJs
    /\ UNCHANGED <<clock, timerVars, pass, domVars, idVars, pageVars, task>>

NextTimer ==
    /\ Returned /\ task.kind = "tasks"
    /\ RunTimer
    /\ UNCHANGED <<domVars, idVars, pageVars, task>>

EndTasks ==
    /\ Returned /\ task.kind = "tasks"
    /\ EndPass
    /\ UNCHANGED <<domVars, idVars, focused, scrollFocus>>
    /\ Finish(FALSE)

Handler ==
    \/ Click \/ ClickDefault \/ SubmitDefault
    \/ TextInput \/ TextInputDefault \/ Key
    \/ BlurInput \/ ScrollBy \/ Resize
    \/ AnimationFrame \/ EndFrame
    \/ RunTasks \/ Onload \/ NextTimer \/ EndTasks

Wait ==
    /\ Idle
    /\ TimePasses
    /\ UNCHANGED <<domVars, idVars, pageVars, task>>

Next == BridgeCall \/ OtherStep \/ Handler \/ Wait

Spec == Init /\ [][Next]_vars

-----------------------------------------------------------------------------
(* Properties.                                                             *)

\* The focused input is in the document, at every step of every script: however
\* a script removes or moves it or what is around it, the focus goes at once,
\* and no click gives it to an input its listeners took away (node_removed,
\* tai_page_activate_viewport).
FocusIsInDocument == focused # None => InDocument(focused)

\* When no handler runs the layout is of the document as it is and of the focus
\* as it is, whatever the listeners did, prevented or did not: the next hit test
\* finds nodes that are there (rebuild_if_changed and how handlers end).
IdleFrameIsCurrent == Idle => ~ dirty /\ frame = Shown

\* A script finds under the name of an id the first element of the document with
\* it, or what it or the language has put there, after every call of the bridge:
\* only a name that the script itself has changed, or all of them after a resync
\* that was cut short, may be behind, until the next resync (after_mutation,
\* collect_ids, sync_id_globals).
IdGlobalsAreCurrent ==
    \A id \in fresh : globals[id] \in {FirstWithId(id), Other}

=============================================================================
