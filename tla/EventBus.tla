------------------------------ MODULE EventBus ------------------------------
(***************************************************************************)
(* EventBus (src/src/core/event_bus.py).  A publication is matched with    *)
(* the subscriptions under the lock and then told to them one by one,      *)
(* without it.  A handler may publish itself, so a thread has a stack of   *)
(* publications; subscribing and unsubscribing, in a handler or elsewhere, *)
(* come between any two steps.  Subscriptions are known by their token.    *)
(* The history kept for the UI is left out.                                *)
(***************************************************************************)
EXTENDS Naturals, SequencesExt

CONSTANTS
    Publishers,     \* threads that publish
    Offers,         \* Offers[t]: where and how the subscription with token t is made
    MaxEvents       \* bound: publications

VARIABLES
    subscribed, \* the tokens in _by_type of one event type, _by_category of its category, _global
    tokens,     \* _counter
    gone,       \* weak handlers whose owner is gone
    frames,     \* frames[p]: the publications thread p is in, the innermost last
    published,  \* publications so far
    enabled,    \* _enabled
    spent       \* history: "once" subscriptions whose first delivery is over

busVars == <<subscribed, tokens, gone, frames, published, enabled, spent>>

Scope == {"type", "category", "global"}
\* Events of the type subscribed to, and events of another type of its category.
Event == {"this", "other"}

ASSUME OffersAssumption ==
    /\ Offers \in Seq([scope : Scope, weak : BOOLEAN, once : BOOLEAN, filter : BOOLEAN])
    /\ MaxEvents \in Nat

Token == DOMAIN Offers

\* rest: the snapshot still to be told, the current handler included; owed:
\* those of the snapshot that were not told yet.
Frame == [inside : BOOLEAN, rest : SUBSET Token, owed : SUBSET Token]

BusTypeOK ==
    /\ tokens \in 0 .. Len(Offers) /\ subscribed \cup gone \cup spent \subseteq 1 .. tokens
    /\ \A p \in Publishers : frames[p] \in Seq(Frame)
    /\ published \in 0 .. MaxEvents
    /\ enabled \in BOOLEAN
    \* Only the innermost publication is not inside a handler.
    /\ \A p \in Publishers : \A i \in 1 .. Len(frames[p]) - 1 : frames[p][i].inside

BusInit ==
    /\ subscribed = {} /\ tokens = 0 /\ gone = {}
    /\ frames = [p \in Publishers |-> <<>>]
    /\ published = 0 /\ enabled = TRUE /\ spent = {}

-----------------------------------------------------------------------------
(* Subscriptions.                                                          *)

Without(ts) == subscribed \ ts

\* subscribe, subscribe_category, subscribe_all
Subscribe ==
    /\ tokens < Len(Offers)
    /\ tokens' = tokens + 1
    /\ subscribed' = subscribed \cup {tokens + 1}
    /\ UNCHANGED <<gone, frames, published, enabled, spent>>

Unsubscribe(t) ==
    /\ t \in subscribed
    /\ subscribed' = Without({t})
    /\ UNCHANGED <<tokens, gone, frames, published, enabled, spent>>

ClearBus ==
    /\ subscribed # {}
    /\ subscribed' = Without(Token)
    /\ UNCHANGED <<tokens, gone, frames, published, enabled, spent>>

\* The owner of a weakly held handler is collected.
OwnerGone(t) ==
    /\ t <= tokens /\ Offers[t].weak /\ t \notin gone
    /\ gone' = gone \cup {t}
    /\ UNCHANGED <<subscribed, tokens, frames, published, enabled, spent>>

\* Application.shutdown
Disable ==
    /\ enabled /\ enabled' = FALSE
    /\ UNCHANGED <<subscribed, tokens, gone, frames, published, spent>>

-----------------------------------------------------------------------------
(* publish and publish_event.                                              *)

Publishing(p) == frames[p] # <<>>
Inner(p) == Last(frames[p])
Becomes(p, f) == frames' = [frames EXCEPT ![p][Len(frames[p])] = f]

Matching(e) == {t \in subscribed : e = "other" => Offers[t].scope # "type"}

\* The snapshot lists the scopes one after the other, each in the order of its
\* subscriptions, which is that of their tokens.
Rank == [type |-> 1, category |-> 2, global |-> 3]

Earlier(t, u) == LET a == Rank[Offers[t].scope]
                     b == Rank[Offers[u].scope] IN a < b \/ (a = b /\ t < u)

IsFirst(t, rest) == t \in rest /\ \A u \in rest \ {t} : Earlier(t, u)

Publish(p, e) ==
    /\ enabled /\ published < MaxEvents
    /\ Publishing(p) => Inner(p).inside
    /\ published' = published + 1
    /\ frames' = [frames EXCEPT ![p] =
          Append(@, [inside |-> FALSE, rest |-> Matching(e), owed |-> Matching(e)])]
    /\ UNCHANGED <<subscribed, tokens, gone, enabled, spent>>

\* The thread has come to subscription t.
ComesTo(p, t) == Publishing(p) /\ ~Inner(p).inside /\ IsFirst(t, Inner(p).rest)

\* A dead weak handler is dropped, one whose predicate says no is passed over.
PassOver(p, t) ==
    /\ ComesTo(p, t)
    /\ \/ t \in gone /\ subscribed' = Without({t})
       \/ t \notin gone /\ Offers[t].filter /\ UNCHANGED subscribed
    /\ Becomes(p, [Inner(p) EXCEPT !.rest = @ \ {t}, !.owed = @ \ {t}])
    /\ UNCHANGED <<tokens, gone, published, enabled, spent>>

Leaves(p) == frames' = [frames EXCEPT ![p] = Front(@)]

\* A predicate that raises: nothing catches it in publish_event(), so the rest is
\* not told.  A handler that was publishing may catch it, or fail itself.
PredicateRaises(p, t) ==
    /\ ComesTo(p, t) /\ t \notin gone /\ Offers[t].filter
    /\ Leaves(p)
    /\ UNCHANGED <<subscribed, tokens, gone, published, enabled, spent>>

CallHandler(p, t) ==
    /\ ComesTo(p, t) /\ t \notin gone
    /\ Becomes(p, [Inner(p) EXCEPT !.inside = TRUE, !.owed = @ \ {t}])
    /\ UNCHANGED <<subscribed, tokens, gone, published, enabled, spent>>

\* Mutant: a "once" handler that fails stays subscribed.
DropsWhenFine(t, fails) == IF Offers[t].once /\ ~fails THEN {t} ELSE {}

Drops(t, fails) == IF Offers[t].once THEN {t} ELSE {}

\* Mutant: a handler that fails ends the publication.
StopsWhenFailing(f, t, fails) == IF fails THEN {} ELSE f.rest \ {t}

\* An exception is logged, and that is all.
GoesOn(f, t, fails) == f.rest \ {t}

HandlerReturns(p, t, fails) ==
    /\ Publishing(p) /\ Inner(p).inside /\ IsFirst(t, Inner(p).rest)
    /\ subscribed' = Without(Drops(t, fails))
    /\ spent' = IF Offers[t].once THEN spent \cup {t} ELSE spent
    /\ Becomes(p, [Inner(p) EXCEPT !.inside = FALSE, !.rest = GoesOn(Inner(p), t, fails)])
    /\ UNCHANGED <<tokens, gone, published, enabled>>

PublishReturns(p) ==
    /\ Publishing(p) /\ ~Inner(p).inside /\ Inner(p).rest = {}
    /\ Leaves(p)
    /\ UNCHANGED <<subscribed, tokens, gone, published, enabled, spent>>

BusNext ==
    \/ Subscribe \/ ClearBus \/ Disable
    \/ \E t \in Token : Unsubscribe(t) \/ OwnerGone(t)
    \/ \E p \in Publishers :
          \/ \E e \in Event : Publish(p, e)
          \/ \E t \in Token : \/ PassOver(p, t) \/ PredicateRaises(p, t) \/ CallHandler(p, t)
                             \/ \E fails \in BOOLEAN : HandlerReturns(p, t, fails)
          \/ PublishReturns(p)

BusSpec == BusInit /\ [][BusNext]_busVars

-----------------------------------------------------------------------------
\* "once": after its first delivery a subscription is in no bucket any more,
\* however the handler ended and whoever else was publishing.
OnceIsDropped == subscribed \cap spent = {}

\* A handler that fails, publishes or unsubscribes breaks nobody off: a publication
\* ends when everybody it matched was told, or at a subscription with a predicate,
\* and then all that are ahead of it were told.  The documentation promises the
\* former only (event_bus.py:287-288), but a predicate that raises breaks it off.
OnlyPredicatesBreakOff ==
    [][\A p \in Publishers : Len(frames'[p]) < Len(frames[p]) =>
          LET owed == Inner(p).owed
          IN  owed = {} \/ \E t \in owed : IsFirst(t, owed) /\ Offers[t].filter]_busVars
=============================================================================
