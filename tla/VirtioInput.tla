----------------------------- MODULE VirtioInput -----------------------------
(***************************************************************************)
(* The keyboard of src/io/input/virtio_input.js: DOM key events, focus loss *)
(* and CMD_INPUT_EVENT messages go through a bounded queue into buffers the *)
(* guest driver posts.  Keys are evdev codes that mapDomKey knows; pointer  *)
(* events and the used ring's interrupt are left out (Virtqueue has it),    *)
(* and the rings themselves lie within guest memory.                        *)
(***************************************************************************)
EXTENDS Naturals, FiniteSets, SequencesExt

CONSTANTS
    Key,
    MaxPending,  \* bound of pendingHost in the code, 4096
    QSize        \* buffers in the event queue

ASSUME InputAssumption ==
    /\ IsFiniteSet(Key) /\ QSize \in Nat \ {0}
    /\ MaxPending \in Nat /\ Cardinality(Key) <= MaxPending

VARIABLES
    enabled,     \* the event queue
    buffers,     \* chains the driver posted and the device has not used yet
    toKick,      \* the driver posted buffers since its last notification
    pressed,
    pendingHost,
    held,        \* history: keys down for whoever sends the events
    guestDown,   \* keys down for the guest
    missed       \* history: keys whose last key-up was never queued, was
                 \*   dropped by a full queue or went into a short buffer

driverVars == <<enabled, toKick>>
inputVars == <<driverVars, buffers, pressed, pendingHost, held, guestDown, missed>>

Event == [code : Key, value : {0, 1}]

(* A chain takes an event, has no writable buffer of 8 bytes first, or is   *)
(* one that popDescriptorChain throws on.                                   *)
Chain == {"good", "short", "malformed"}

InputTypeOK ==
    /\ enabled \in BOOLEAN /\ toKick \in BOOLEAN
    /\ buffers \in Seq(Chain) /\ Len(buffers) <= QSize
    /\ pressed \subseteq Key /\ held \subseteq Key /\ guestDown \subseteq Key
    /\ missed \subseteq Key
    /\ pendingHost \in Seq(Event) /\ Len(pendingHost) <= MaxPending

InputInit ==
    /\ enabled = FALSE /\ toKick = FALSE /\ buffers = <<>>
    /\ pressed = {} /\ pendingHost = <<>>
    /\ held = {} /\ guestDown = {} /\ missed = {}

-----------------------------------------------------------------------------
(* The keys down after the events of es at the positions at, when those of  *)
(* down were before; and after all of them.                                 *)
EventsOf(k, es) == {i \in DOMAIN es : es[i].code = k}
AfterAt(down, es, at) ==
    {k \in Key : IF EventsOf(k, es) \cap at = {} THEN k \in down
                 ELSE \E i \in EventsOf(k, es) \cap at :
                          es[i].value = 1 /\ \A j \in EventsOf(k, es) \cap at : j <= i}
After(down, es) == AfterAt(down, es, DOMAIN es)

(* pumpQueue as a function of what it reads and writes.  A malformed chain  *)
(* ends it, the event still queued and the chain still the next; a short    *)
(* buffer is used and its event lost.                                       *)
Least(a, b) == IF a < b THEN a ELSE b
Handled(s) ==
    {i \in 1..Least(Len(s.pending), Len(s.buffers)) :
        enabled /\ \A j \in 1..i : s.buffers[j] # "malformed"}
Good(s) == {i \in Handled(s) : s.buffers[i] = "good"}
LostUps(s) ==
    {k \in Key : \E i \in EventsOf(k, s.pending) \cap (Handled(s) \ Good(s)) :
        s.pending[i].value = 0 /\ \A j \in EventsOf(k, s.pending) : j <= i}

Pumped(s) ==
    LET n == Cardinality(Handled(s)) IN
    [s EXCEPT !.pending = SubSeq(@, n + 1, Len(@)),
              !.buffers = SubSeq(@, n + 1, Len(@)),
              !.down    = AfterAt(@, s.pending, Good(s)),
              !.missed  = @ \cup LostUps(s)]

Here == [pending |-> pendingHost, buffers |-> buffers, down |-> guestDown, missed |-> missed]
Becomes(s) == /\ pendingHost' = s.pending /\ buffers' = s.buffers
              /\ guestDown' = s.down /\ missed' = s.missed

(* enqueueHostEvent: the oldest event goes when there are too many.         *)
Enqueued(s, e) ==
    LET q       == Append(s.pending, e)
        full    == Len(q) > MaxPending
        dropped == {k \in Key : full /\ q[1] = [code |-> k, value |-> 0]
                                /\ EventsOf(k, Tail(q)) = {}}
    IN Pumped([s EXCEPT !.pending = IF full THEN Tail(q) ELSE q,
                        !.missed  = (@ \ {e.code}) \cup dropped])

KeyEvent(k, v) == [code |-> k, value |-> v]
With(ks, k, v) == IF v = 1 THEN ks \cup {k} ELSE ks \ {k}

-----------------------------------------------------------------------------
HandleDomKey(k, v) ==
    /\ pressed' = With(pressed, k, v) /\ held' = With(held, k, v)
    /\ Becomes(Enqueued(Here, KeyEvent(k, v)))
    /\ UNCHANGED driverVars

(* cmdInputEvent of the worker: past the device's set of pressed keys.      *)
InputEvent(k, v) ==
    /\ held' = With(held, k, v)
    /\ Becomes(Enqueued(Here, KeyEvent(k, v)))
    /\ UNCHANGED <<driverVars, pressed>>

\* Mutant: the set is cleared before the key-ups are made from it.
HandleFocusLossClearsFirst ==
    /\ pressed' = {} /\ held' = {}
    /\ UNCHANGED <<driverVars, buffers, pendingHost, guestDown, missed>>

(* The key-ups of focus loss, one after the other in the order of the set,  *)
(* which is the one the keys went down in: any order.                       *)
Released(s, keys) ==
    LET after[n \in 0..Len(keys)] ==
            IF n = 0 THEN s ELSE Enqueued(after[n - 1], KeyEvent(keys[n], 0))
    IN after[Len(keys)]

HandleFocusLoss ==
    /\ pressed' = {} /\ held' = {}
    /\ \E keys \in SetToSeqs(pressed) :
           Becomes(Released([Here EXCEPT !.missed = @ \cup (held \ pressed)], keys))
    /\ UNCHANGED driverVars

\* Mutant: a notification delivers nothing.
OnQueueNotifyIgnored ==
    /\ toKick /\ enabled
    /\ toKick' = FALSE
    /\ UNCHANGED <<enabled, buffers, pressed, pendingHost, held, guestDown, missed>>

OnQueueNotify ==
    /\ toKick /\ enabled
    /\ toKick' = FALSE
    /\ Becomes(Pumped(Here))
    /\ UNCHANGED <<enabled, pressed, held>>

(* Device reset: the guest gives up its input device and its keys with it.  *)
Reset ==
    /\ enabled
    /\ enabled' = FALSE /\ toKick' = FALSE /\ buffers' = <<>>
    /\ pressed' = {} /\ pendingHost' = <<>> /\ guestDown' = {} /\ missed' = {}
    /\ UNCHANGED held

(* External: the driver enables the queue, posts buffers and kicks.         *)
Enable ==
    /\ ~enabled
    /\ enabled' = TRUE
    /\ UNCHANGED <<toKick, buffers, pressed, pendingHost, held, guestDown, missed>>

PostBuffer ==
    /\ enabled /\ Len(buffers) < QSize
    /\ \E c \in Chain : buffers' = Append(buffers, c)
    /\ toKick' = TRUE
    /\ UNCHANGED <<enabled, pressed, pendingHost, held, guestDown, missed>>

-----------------------------------------------------------------------------
Driver   == Enable \/ PostBuffer \/ OnQueueNotify
KeyInput == \E k \in Key, v \in {0, 1} : HandleDomKey(k, v) \/ InputEvent(k, v)

InputNext == KeyInput \/ HandleFocusLoss \/ Reset \/ Driver
InputSpec == InputInit /\ [][InputNext]_inputVars

(* The guest enables its queue, posts the buffers it gets back and kicks.   *)
InputFairSpec == InputSpec /\ WF_inputVars(Enable) /\ WF_inputVars(PostBuffer) /\ WF_inputVars(OnQueueNotify)

-----------------------------------------------------------------------------
(* The driver offers a chain that takes no event; a malformed one stays.    *)
Unusable == \E i \in DOMAIN buffers : buffers[i] # "good"

(* "Key-up for every pressed key so the guest never sticks"                 *)
(* (virtio_input.js:78) as far as it goes: once what is queued has arrived, *)
(* the guest takes no key for down that the host does not, but one whose    *)
(* key-up a full queue dropped or a short buffer swallowed, or that focus   *)
(* loss did not release because it had come as CMD_INPUT_EVENT.  Its next   *)
(* event puts such a key right.                                             *)
NoStuckKey == After(guestDown, pendingHost) \subseteq held \cup missed

(* A key that is released, by its key-up or by focus loss, comes up in the  *)
(* guest too unless it is pressed again or missed, the events come faster   *)
(* than the guest takes them, or the driver goes on offering short buffers  *)
(* or has a malformed chain block the queue: it is drained whenever the     *)
(* driver posts buffers.                                                    *)
KeysComeUp ==
    \A k \in Key : k \notin held ~>
        \/ k \notin guestDown
        \/ k \in held \cup missed
        \/ Len(pendingHost) = MaxPending
        \/ Unusable

=============================================================================
