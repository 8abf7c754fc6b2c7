-------------------------- MODULE DraftRevisionProofs --------------------------
(***************************************************************************)
(* Proofs about DraftRevision, for any number of workers, cards, commands  *)
(* and revisions: the drafts of a case have one history, no review of them is  *)
(* lost, and what a request left unfinished is finished by sending it      *)
(* again.                                                                  *)
(***************************************************************************)
EXTENDS DraftRevision, SequenceTheorems, TLAPS

-----------------------------------------------------------------------------
(* Prefixes *)

\* The prefix of a sequence agrees with it at every place.
LEMMA PrefixAgrees ==
  ASSUME NEW S, NEW a \in Seq(S), NEW b \in Seq(S)
  PROVE  IsPrefix(a, b) <=> Len(a) <= Len(b) /\ \A i \in 1 .. Len(a) : a[i] = b[i]
<1>1. CASE Len(a) <= Len(b)
  <2>1. /\ Len(SubSeq(a, 1, Len(a))) = Len(a)
        /\ Len(SubSeq(b, 1, Len(a))) = Len(a)
        /\ \A i \in 1 .. Len(a) : SubSeq(a, 1, Len(a))[i] = a[i] /\ SubSeq(b, 1, Len(a))[i] = b[i]
    BY <1>1
  <2>2. SubSeq(a, 1, Len(a)) \in Seq(S) /\ SubSeq(b, 1, Len(a)) \in Seq(S)
    BY <1>1
  <2> QED BY <1>1, <2>1, <2>2, SeqEqual DEF IsPrefix
<1>2. CASE ~ (Len(a) <= Len(b))
  BY <1>2 DEF IsPrefix
<1> QED BY <1>1, <1>2

\* Being a prefix is an order.
LEMMA PrefixOrder ==
  ASSUME NEW S, NEW a \in Seq(S), NEW b \in Seq(S), NEW c \in Seq(S)
  PROVE  /\ IsPrefix(a, a)
         /\ IsPrefix(a, b) /\ IsPrefix(b, c) => IsPrefix(a, c)
         /\ IsPrefix(a, b) /\ IsPrefix(b, a) => a = b
<1>1. IsPrefix(a, a)
  BY PrefixAgrees
<1>2. ASSUME IsPrefix(a, b), IsPrefix(b, c)  PROVE IsPrefix(a, c)
  BY <1>2, PrefixAgrees
<1>3. ASSUME IsPrefix(a, b), IsPrefix(b, a)  PROVE a = b
  BY <1>3, PrefixAgrees, SeqEqual
<1> QED BY <1>1, <1>2, <1>3

\* A sequence with one more element has one more prefix.
LEMMA PrefixAppend ==
  ASSUME NEW S, NEW a \in Seq(S), NEW b \in Seq(S), NEW x \in S
  PROVE  /\ Append(b, x) \in Seq(S) /\ Append(b, x) # b
         /\ IsPrefix(b, Append(b, x))
         /\ IsPrefix(a, Append(b, x)) => IsPrefix(a, b) \/ a = Append(b, x)
<1> DEFINE c == Append(b, x)
<1>1. /\ c \in Seq(S) /\ Len(c) = Len(b) + 1
      /\ c[Len(b) + 1] = x /\ \A i \in 1 .. Len(b) : c[i] = b[i]
  OBVIOUS
<1> Len(a) \in Nat /\ Len(b) \in Nat
  OBVIOUS
<1> HIDE DEF c
<1>2. c # b /\ IsPrefix(b, c)
  BY <1>1, PrefixAgrees
<1>3. ASSUME IsPrefix(a, c)  PROVE IsPrefix(a, b) \/ a = c
  <2>1. Len(a) <= Len(c) /\ \A i \in 1 .. Len(a) : a[i] = c[i]
    BY <1>1, <1>3, PrefixAgrees
  <2>2. CASE Len(a) <= Len(b)
    BY <1>1, <2>1, <2>2, PrefixAgrees
  <2>3. CASE Len(a) = Len(c)
    BY <1>1, <2>1, <2>3, SeqEqual
  <2> QED BY <1>1, <2>1, <2>2, <2>3
<1> QED BY <1>1, <1>2, <1>3 DEF c

-----------------------------------------------------------------------------
(* The inductive invariant *)

AnyStep == [kind : {"prepare", "command", "model"}, by : SUBSET (Card \cup Command)]

Drafts == Seq(AnyStep)

\* The drafts form a line, and those with a linked successor are superseded.
Line ==
  /\ DOMAIN drafts \subseteq Drafts
  /\ drafts \in [History -> Content]
  /\ \A e \in events : e.kind = "draft" => e.draft \in History
  /\ OneHistory

\* The timeline proves what a draft's cards say.
Proven(d, content) ==
  \A c \in Card : content.cards[c].at # 0 => Proof(d, c, content.cards[c]) \in events

\* A draft that was superseded or decided, or has a successor, is not reviewed again.
Settled(d) == ~ Open(d) \/ \E e \in History : IsStrictPrefix(d, e)

Reviews ==
  /\ \A d \in History, e \in Drafts : IsPrefix(e, d) => e \in History
  /\ \A e \in events : e.kind = "review" =>
       /\ e.draft \in History /\ e.card \in Card /\ e.mark \in Mark
       /\ drafts[e.draft].cards[e.card].at >= e.mark.at
  /\ \A d \in History : Settled(d) => Proven(d, drafts[d])
  /\ \A d \in History, c \in Card : drafts[d].cards[c].at <= now

\* A draft that is not linked is the last one, as it was made, by a step that the
\* draft before it still stands for.
Unlinked(d) ==
  /\ \A e \in History : IsPrefix(e, d)
  /\ drafts[d] = Fresh
  /\ \E p \in History, s \in Step :
       /\ d = Append(p, s) /\ Linked(p) /\ SpecKept(p) /\ p \notin decided
       /\ drafts[p].status \in {"pending", "superseded"}
       /\ s.kind = "model" => s.by = ToChange(drafts[p])

\* A card has a review that is not on the timeline.
Missing(d, content, c) ==
  content.cards[c].at # 0 /\ Proof(d, c, content.cards[c]) \notin events

OneMissing(d, content) ==
  \A c, k \in Card : Missing(d, content, c) /\ Missing(d, content, k) => c = k

\* What requests that were cut short leave.
Remains ==
  /\ \A d \in History : ~ Linked(d) => Unlinked(d)
  /\ \A d \in decided : /\ d \in History /\ Lineage(d) = {d}
                        /\ Linked(d) /\ Proven(d, drafts[d])
  /\ latest \in History /\ Linked(latest)
  /\ \A e \in History : Linked(e) => IsPrefix(e, latest)
  /\ \A d \in History : OneMissing(d, drafts[d])

\* What a request may have planned: the writes of a step whose draft everything
\* precedes, the rest of them, a review or the rest of it, planning evidence, a
\* decision or the rest of it.
Grows(writes) ==
  \E d \in History, s \in Step :
    /\ Append(d, s) \notin History /\ Linked(d)
    /\ \A e \in History : IsPrefix(e, d)
    /\ Proven(d, drafts[d])
    /\ drafts[d].status = "pending" /\ d \notin decided /\ SpecKept(d)
    /\ s.kind = "model" => s.by = ToChange(drafts[d])
    /\ writes = << Put(Append(d, s), Fresh), Put(d, Superseded(drafts[d])),
                   Log(Link(Append(d, s))) >>

Replaces(writes) ==
  \E d \in History, s \in AnyStep :
    /\ Append(d, s) \in History /\ Linked(d) /\ Proven(d, drafts[d])
    /\ writes = << Put(d, Superseded(drafts[d])), Log(Link(Append(d, s))) >>

Links(writes) ==
  \E d \in History, s \in AnyStep :
    /\ Append(d, s) \in History /\ Linked(d) /\ drafts[d].status = "superseded"
    /\ writes = << Log(Link(Append(d, s))) >>

Marks(writes) ==
  \E d \in History, c \in Card, m \in Mark :
    /\ ~ Settled(d) /\ m.at = now + 1
    /\ Linked(d) /\ Proven(d, drafts[d]) /\ d \notin decided
    /\ writes = << Put(d, [drafts[d] EXCEPT !.cards[c] = m]), Log(Proof(d, c, m)) >>

Proves(writes) ==
  \E d \in History, c \in Card, m \in Mark :
    /\ drafts[d].cards[c] = m
    /\ writes = << Log(Proof(d, c, m)) >>

Notes(writes) ==
  \E d \in History : writes = << Note(d) >>

Decides(writes) ==
  \E d \in History :
    /\ Lineage(d) = {d} /\ Linked(d) /\ Proven(d, drafts[d])
    /\ writes = << Aggregate(d), Put(d, [drafts[d] EXCEPT !.status = "decided"]) >>

Projects(writes) ==
  \E d \in History :
    /\ Lineage(d) = {d} /\ Linked(d) /\ Proven(d, drafts[d])
    /\ writes = << Put(d, [drafts[d] EXCEPT !.status = "decided"]) >>

Legal(writes) ==
  \/ Grows(writes) \/ Replaces(writes) \/ Links(writes)
  \/ Proves(writes) \/ Notes(writes) \/ Decides(writes) \/ Projects(writes)

Point == {"idle", "checked", "ready", "refused", "repair", "writing"}

\* A request that is not writing knows a stored draft; one that has found the next
\* draft finds it again; only the two that check first look for it.
Knows(t) ==
  t.pc \in {"checked", "ready", "refused", "repair"} =>
    /\ t.job \in Job /\ t.seen \in Content /\ t.job.draft \in History
    /\ t.pc # "ready" => Checked(t.job)
    /\ Checked(t.job) => Proven(t.job.draft, t.seen)
    /\ t.job.kind = "review" => t.seen.status = "pending"
    /\ t.job.kind = "model" => ToChange(t.seen) # {}
    /\ t.pc = "repair" \/ t.found # None => Child(t.job, t.seen) \in History

TaskOf(t) == [pc |-> t.pc, job |-> t.job, seen |-> t.seen, found |-> t.found, plan |-> t.plan]

Tasks ==
  /\ task = [w \in Worker |-> TaskOf(task[w])]
  /\ \A w \in Worker : /\ Knows(task[w])
                       /\ task[w].pc = "writing" <=> lock = w
                       /\ task[w].pc = "writing" => Legal(task[w].plan)

IInv == Line /\ Reviews /\ Remains /\ Tasks /\ now \in 0 .. MaxReviews

-----------------------------------------------------------------------------
(* A write *)

\* The effect of storing a draft and of an event.
LEMMA PutEffect ==
  ASSUME NEW d, NEW content, Perform(Put(d, content))
  PROVE  /\ drafts' = [e \in History \cup {d} |-> IF e = d THEN content ELSE drafts[e]]
         /\ UNCHANGED <<events, latest, evidence, fitting, decided>>
BY DEF Perform, Put

\* The effect of an event.
LEMMA LogEffect ==
  ASSUME NEW event, Perform(Log(event))
  PROVE  /\ events' = events \cup {event}
         /\ UNCHANGED <<drafts, evidence, fitting, decided>>
BY DEF Perform, Log

\* Planning evidence and an aggregate leave the drafts and the timeline alone.
LEMMA OtherEffect ==
  ASSUME NEW d, Perform(Note(d)) \/ Perform(Aggregate(d))
  PROVE  UNCHANGED <<drafts, events>>
BY DEF Perform, Note, Aggregate

\* Every step that a request takes.
LEMMA StepIs == Step \subseteq AnyStep
BY DEF Step, AnyStep

\* The first write and the rest of some.
LEMMA HeadTail ==
  ASSUME NEW a, NEW b, NEW c
  PROVE  /\ Len(<< a >>) = 1 /\ Head(<< a >>) = a
         /\ Len(<< a, b >>) = 2 /\ Head(<< a, b >>) = a /\ Tail(<< a, b >>) = << b >>
         /\ Len(<< a, b, c >>) = 3 /\ Head(<< a, b, c >>) = a /\ Tail(<< a, b, c >>) = << b, c >>
         /\ << a >> # << >> /\ << a, b >> # << >> /\ << a, b, c >> # << >>
OBVIOUS

\* Contents that are stored.
LEMMA Contents ==
  /\ Fresh \in Content
  /\ \A content \in Content : /\ Superseded(content) \in Content
                              /\ Superseded(content).status = "superseded"
                              /\ Superseded(content).cards = content.cards
                              /\ [content EXCEPT !.status = "decided"] \in Content
                              /\ [content EXCEPT !.status = "decided"].cards = content.cards
  /\ \A content \in Content, c \in Card, m \in Mark :
       /\ [content EXCEPT !.cards[c] = m] \in Content
       /\ [content EXCEPT !.cards[c] = m].status = content.status
       /\ [content EXCEPT !.cards[c] = m].cards = [content.cards EXCEPT ![c] = m]
<1>1. Fresh \in Content
  BY DraftRevisionAssumption DEF Fresh, Unseen, Content, Mark
<1>2. \A content \in Content : /\ Superseded(content) \in Content
                               /\ Superseded(content).status = "superseded"
                               /\ Superseded(content).cards = content.cards
                               /\ [content EXCEPT !.status = "decided"] \in Content
                               /\ [content EXCEPT !.status = "decided"].cards = content.cards
  BY DEF Superseded, Content
<1>3. \A content \in Content, c \in Card, m \in Mark :
        /\ [content EXCEPT !.cards[c] = m] \in Content
        /\ [content EXCEPT !.cards[c] = m].status = content.status
        /\ [content EXCEPT !.cards[c] = m].cards = [content.cards EXCEPT ![c] = m]
  BY DEF Content
<1> QED BY <1>1, <1>2, <1>3

\* What OneHistory says of two drafts.
LEMMA Successor ==
  ASSUME Line, NEW d \in History, NEW e \in History,
         IsPrefix(d, e), d # e, Linked(e)
  PROVE  drafts[d].status = "superseded"
BY DEF Line, OneHistory, IsStrictPrefix

\* A draft that all others precede gets a successor.
LEMMA StoreNew ==
  ASSUME Line, NEW d \in History, NEW s \in AnyStep,
         Append(d, s) \notin History, \A e \in History : IsPrefix(e, d),
         Perform(Put(Append(d, s), Fresh))
  PROVE  Line' /\ History' = History \cup {Append(d, s)} /\ UNCHANGED events
         /\ \A e \in History : drafts'[e] = drafts[e]
<1> DEFINE c == Append(d, s)
<1>1. History \subseteq Drafts /\ c \in Drafts /\ d \in Drafts
  BY PrefixAppend DEF Line, History, Drafts
<1>2. \A e \in History : IsPrefix(e, c)
  <2> TAKE e \in History
  <2>1. IsPrefix(e, d) /\ IsPrefix(d, c)
    BY <1>1, PrefixAppend DEF Drafts
  <2> QED BY <1>1, <2>1, PrefixOrder DEF Drafts
<1>3. IsPrefix(c, c)
  BY <1>1, PrefixOrder DEF Drafts
<1> HIDE DEF c
<1>4. /\ drafts' = [e \in History \cup {c} |-> IF e = c THEN Fresh ELSE drafts[e]]
      /\ UNCHANGED events
  BY PutEffect DEF c
<1>5. /\ History' = History \cup {c}
      /\ drafts' \in [History' -> Content]
      /\ \A e \in History : drafts'[e] = drafts[e]
  BY <1>4, Contents DEF History, Line, c
<1>6. ~ Linked(c)' /\ \A e \in History : Linked(e)' <=> Linked(e)
  BY <1>4 DEF Linked, Link, Line, c
<1>7. OneHistory'
  <2> SUFFICES ASSUME NEW a \in History', NEW b \in History'
               PROVE  /\ IsPrefix(a, b) \/ IsPrefix(b, a)
                      /\ IsStrictPrefix(a, b) /\ Linked(b)' => drafts'[a].status = "superseded"
    BY DEF OneHistory
  <2>1. CASE b = c
    BY <1>2, <1>3, <1>5, <1>6, <2>1
  <2>2. CASE a = c /\ b \in History
    <3>1. IsPrefix(b, a)
      BY <1>2, <2>2
    <3>2. ~ IsStrictPrefix(a, b)
      BY <1>1, <2>2, <3>1, PrefixOrder DEF IsStrictPrefix, Drafts, c
    <3> QED BY <3>1, <3>2
  <2>3. CASE a \in History /\ b \in History
    BY <1>5, <1>6, <2>3 DEF Line, OneHistory
  <2> QED BY <1>5, <2>1, <2>2, <2>3
<1> QED BY <1>1, <1>4, <1>5, <1>7 DEF Line, History, c

\* A stored draft changes: its status stays, it is superseded, or it has no successor.
LEMMA StoreOld ==
  ASSUME Line, NEW d \in History, NEW content \in Content,
         \/ content.status \in {drafts[d].status, "superseded"}
         \/ Lineage(d) = {d},
         Perform(Put(d, content))
  PROVE  Line' /\ History' = History /\ UNCHANGED events
         /\ drafts'[d] = content
<1>1. /\ drafts' = [e \in History |-> IF e = d THEN content ELSE drafts[e]]
      /\ UNCHANGED events
  <2>1. History \cup {d} = History
    OBVIOUS
  <2> QED BY <2>1, PutEffect
<1>2. /\ History' = History
      /\ drafts' \in [History' -> Content]
      /\ \A e \in History : Linked(e)' <=> Linked(e)
      /\ drafts'[d] = content
      /\ \A e \in History \ {d} : drafts'[e] = drafts[e]
  BY <1>1 DEF History, Line, Linked
<1>3. OneHistory'
  <2> SUFFICES ASSUME NEW a \in History, NEW b \in History
               PROVE  /\ IsPrefix(a, b) \/ IsPrefix(b, a)
                      /\ IsStrictPrefix(a, b) /\ Linked(b) => drafts'[a].status = "superseded"
    BY <1>2 DEF OneHistory
  <2>1. IsPrefix(a, b) \/ IsPrefix(b, a)
    BY DEF Line, OneHistory
  <2>2. ASSUME IsStrictPrefix(a, b), Linked(b)  PROVE drafts'[a].status = "superseded"
    <3>1. drafts[a].status = "superseded"
      BY <2>2 DEF Line, OneHistory
    <3>2. CASE a # d
      BY <1>2, <3>1, <3>2
    <3>3. CASE a = d
      <4>1. b \in Lineage(d) /\ b # d
        BY <2>2, <3>3 DEF Lineage, IsStrictPrefix
      <4> QED BY <1>2, <3>1, <3>3, <4>1
    <3> QED BY <3>2, <3>3
  <2> QED BY <2>1, <2>2
<1> QED BY <1>1, <1>2, <1>3 DEF Line, History

\* The successor of a superseded, linked draft is linked.
LEMMA LinkNext ==
  ASSUME Line, NEW d \in History, NEW s \in AnyStep, Append(d, s) \in History,
         Linked(d), drafts[d].status = "superseded",
         Perform(Log(Link(Append(d, s))))
  PROVE  /\ Line' /\ History' = History /\ UNCHANGED drafts
         /\ events' = events \cup {Link(Append(d, s))}
<1> DEFINE c == Append(d, s)
<1>1. History \subseteq Drafts
  BY DEF Line, History
<1>2. ASSUME NEW a \in History, IsStrictPrefix(a, c)  PROVE drafts[a].status = "superseded"
  <2>1. IsPrefix(a, d)
    BY <1>1, <1>2, PrefixAppend DEF IsStrictPrefix, Drafts
  <2> QED BY <2>1, Successor
<1> c \in History
  OBVIOUS
<1> HIDE DEF c
<1>3. /\ events' = events \cup {Link(c)}
      /\ UNCHANGED drafts
  BY LogEffect DEF c
<1>4. \A e \in History : Linked(e)' <=> Linked(e) \/ e = c
  BY <1>3 DEF Linked, Link
<1>5. History' = History
  BY <1>3 DEF History
<1>6. OneHistory'
  BY <1>2, <1>3, <1>4, <1>5 DEF OneHistory, Line
<1>7. \A e \in events' : e.kind = "draft" => e.draft \in History'
  <2> SUFFICES ASSUME NEW e \in events', e.kind = "draft"  PROVE e.draft \in History
    BY <1>5
  <2> QED BY <1>3 DEF Line, Link
<1> QED BY <1>3, <1>5, <1>6, <1>7 DEF Line, History, c

\* Other events and records do not touch the line.
LEMMA NoLink ==
  ASSUME Line,
         \/ \E d, c, m : Perform(Log(Proof(d, c, m)))
         \/ \E d : Perform(Note(d)) \/ Perform(Aggregate(d))
  PROVE  Line' /\ UNCHANGED drafts
<1>1. /\ UNCHANGED drafts
      /\ \A e : Linked(e)' <=> Linked(e)
      /\ \A e \in events' : e \in events \/ e.kind = "review"
  <2>1. CASE \E d : Perform(Note(d)) \/ Perform(Aggregate(d))
    BY <2>1, OtherEffect DEF Linked
  <2>2. ASSUME NEW d, NEW c, NEW m, Perform(Log(Proof(d, c, m)))
        PROVE  <1>1!1 /\ <1>1!2 /\ <1>1!3
    BY <2>2, LogEffect DEF Linked, Link, Proof
  <2> QED BY <2>1, <2>2
<1> QED BY <1>1 DEF Line, OneHistory, History

\* The same writes and the reviews.
LEMMA StoreNewReviews ==
  ASSUME Line, Reviews, NEW d \in History, NEW s \in AnyStep,
         Append(d, s) \notin History, \A e \in History : IsPrefix(e, d), Proven(d, drafts[d]),
         Perform(Put(Append(d, s), Fresh)), now' >= now, now \in Nat, now' \in Nat
  PROVE  Reviews'
<1> DEFINE c == Append(d, s)
<1>1. /\ Line' /\ History' = History \cup {c} /\ UNCHANGED events
      /\ \A e \in History : drafts'[e] = drafts[e]
      /\ drafts'[c] = Fresh
  <2>1. drafts' = [e \in History \cup {c} |-> IF e = c THEN Fresh ELSE drafts[e]]
    <3> HIDE DEF c
    <3> QED BY PutEffect DEF c
  <2> QED BY <2>1, StoreNew
<1>2. /\ History \subseteq Drafts /\ c \in Drafts
      /\ \A e \in Drafts : IsPrefix(e, c) => IsPrefix(e, d) \/ e = c
  BY PrefixAppend DEF Line, History, Drafts
<1> HIDE DEF c
<1>3. \A f \in History', e \in Drafts : IsPrefix(e, f) => e \in History'
  BY <1>1, <1>2 DEF Reviews
<1>4. \A e \in events' : e.kind = "review" =>
        /\ e.draft \in History' /\ e.card \in Card /\ e.mark \in Mark
        /\ drafts'[e.draft].cards[e.card].at >= e.mark.at
  BY <1>1 DEF Reviews
<1>5. ASSUME NEW f \in History', Settled(f)'  PROVE Proven(f, drafts[f])'
  <2>1. CASE f = c
    BY <1>1, <2>1 DEF Proven, Fresh, Unseen
  <2>2. CASE f = d
    BY <1>1, <2>2 DEF Proven
  <2>3. CASE f \in History /\ f # d
    <3>1. Settled(f)
      BY <2>3 DEF Settled, IsStrictPrefix
    <3> QED BY <1>1, <2>3, <3>1 DEF Reviews, Proven
  <2> QED BY <1>1, <2>1, <2>2, <2>3
<1>6. ASSUME NEW f \in History', NEW k \in Card  PROVE drafts'[f].cards[k].at <= now'
  <2>1. CASE f = c
    BY <1>1, <2>1 DEF Fresh, Unseen
  <2>2. CASE f \in History
    <3>1. drafts[f].cards[k].at <= now /\ drafts[f].cards[k].at \in 0 .. MaxReviews
      BY <2>2 DEF Reviews, Line, Content, Mark
    <3> QED BY <1>1, <2>2, <3>1, DraftRevisionAssumption
  <2> QED BY <1>1, <2>1, <2>2
<1> QED BY <1>3, <1>4, <1>5, <1>6 DEF Reviews

\* A draft's status changes when its reviews are proven.
LEMMA StoreOldReviews ==
  ASSUME Line, Reviews, NEW d \in History, NEW content \in Content,
         content.cards = drafts[d].cards, Proven(d, drafts[d]),
         Perform(Put(d, content)), now' >= now, now \in Nat, now' \in Nat
  PROVE  Reviews' /\ Proven(d, drafts[d])'
<1>1. /\ drafts' = [e \in History |-> IF e = d THEN content ELSE drafts[e]]
      /\ UNCHANGED events
  <2>1. History \cup {d} = History
    OBVIOUS
  <2>2. /\ drafts' = [e \in History \cup {d} |-> IF e = d THEN content ELSE drafts[e]]
        /\ UNCHANGED events
    BY PutEffect
  <2> QED BY <2>1, <2>2
<1>2. /\ History' = History
      /\ \A e \in History : drafts'[e].cards = drafts[e].cards
      /\ \A e \in History \ {d} : drafts'[e] = drafts[e]
  BY <1>1 DEF History
<1>3. Proven(d, drafts[d])'
  BY <1>1, <1>2 DEF Proven
<1>4. ASSUME NEW f \in History, Settled(f)'  PROVE Proven(f, drafts[f])'
  <2>1. CASE f # d
    <3>1. Settled(f)
      BY <1>2, <1>4, <2>1 DEF Settled, Open, Stored
    <3> QED BY <1>1, <1>2, <3>1 DEF Reviews, Proven
  <2> QED BY <1>3, <2>1
<1>5. ASSUME NEW f \in History, NEW k \in Card  PROVE drafts'[f].cards[k].at <= now'
  <2>1. drafts[f].cards[k].at <= now /\ drafts[f].cards[k].at \in 0 .. MaxReviews
    BY DEF Reviews, Line, Content, Mark
  <2> QED BY <1>2, <2>1, DraftRevisionAssumption
<1> QED BY <1>1, <1>2, <1>3, <1>4, <1>5 DEF Reviews

\* A card of a draft that is not settled is reviewed.
LEMMA MarkReviews ==
  ASSUME Line, Reviews, NEW d \in History, NEW c \in Card, NEW m \in Mark,
         ~ Settled(d), m.at = now + 1,
         NEW content \in Content, content.status = drafts[d].status,
         content.cards = [drafts[d].cards EXCEPT ![c] = m],
         Perform(Put(d, content)), now' = now + 1, now \in Nat
  PROVE  Reviews' /\ drafts'[d].cards[c] = m
<1>1. drafts[d] \in Content
  BY DEF Line
<1>2. /\ content.status = drafts[d].status
      /\ content.cards[c] = m /\ \A k \in Card \ {c} : content.cards[k] = drafts[d].cards[k]
  BY <1>1 DEF Content
<1>3. /\ drafts' = [e \in History |-> IF e = d THEN content ELSE drafts[e]]
      /\ UNCHANGED events
  <2>1. History \cup {d} = History
    OBVIOUS
  <2>2. /\ drafts' = [e \in History \cup {d} |-> IF e = d THEN content ELSE drafts[e]]
        /\ UNCHANGED events
    BY PutEffect
  <2> QED BY <2>1, <2>2
<1>4. /\ History' = History /\ drafts'[d] = content
      /\ \A e \in History \ {d} : drafts'[e] = drafts[e]
  BY <1>3 DEF History
<1>5. \A f \in History, k \in Card :
        drafts[f].cards[k].at <= now /\ drafts[f].cards[k].at \in 0 .. MaxReviews
  BY DEF Reviews, Line, Content, Mark
<1>6. ASSUME NEW e \in events, e.kind = "review"
      PROVE  /\ e.draft \in History /\ e.card \in Card /\ e.mark \in Mark
             /\ drafts'[e.draft].cards[e.card].at >= e.mark.at
  <2>1. /\ e.draft \in History /\ e.card \in Card /\ e.mark \in Mark
        /\ drafts[e.draft].cards[e.card].at >= e.mark.at
    BY <1>6 DEF Reviews
  <2>2. e.mark.at \in 0 .. MaxReviews
    BY <2>1 DEF Mark
  <2>3. CASE e.draft = d /\ e.card = c
    <3>1. e.mark.at <= now
      BY <1>5, <2>1, <2>2, <2>3, DraftRevisionAssumption
    <3>2. m.at >= e.mark.at
      BY <2>2, <3>1, DraftRevisionAssumption
    <3>3. drafts'[d].cards[c] = m
      BY <1>2, <1>4
    <3> QED BY <2>1, <2>3, <3>2, <3>3
  <2>4. CASE ~ (e.draft = d /\ e.card = c)
    BY <1>2, <1>4, <2>1, <2>4
  <2> QED BY <2>3, <2>4
<1>7. ASSUME NEW f \in History, Settled(f)'  PROVE Proven(f, drafts[f])'
  <2>1. Settled(f)
    BY <1>2, <1>4, <1>7 DEF Settled, Open, Stored
  <2>2. f # d
    BY <2>1
  <2> QED BY <1>3, <1>4, <2>1, <2>2 DEF Reviews, Proven
<1>8. ASSUME NEW f \in History, NEW k \in Card  PROVE drafts'[f].cards[k].at <= now'
  <2>1. CASE f = d /\ k = c
    <3>1. drafts'[d].cards[c] = m
      BY <1>2, <1>4
    <3>2. m.at <= now'
      OBVIOUS
    <3> QED BY <2>1, <3>1, <3>2
  <2>2. CASE ~ (f = d /\ k = c)
    <3>1. drafts'[f].cards[k] = drafts[f].cards[k]
      BY <1>2, <1>4, <2>2
    <3> QED BY <1>5, <3>1, DraftRevisionAssumption
  <2> QED BY <2>1, <2>2
<1> QED BY <1>2, <1>3, <1>4, <1>6, <1>7, <1>8 DEF Reviews

\* The timeline grows by a link, by what a card says, or not at all.
LEMMA LogReviews ==
  ASSUME Line, Reviews, UNCHANGED drafts, now' >= now, now \in Nat, now' \in Nat,
         \/ UNCHANGED events
         \/ \E d : events' = events \cup {Link(d)}
         \/ \E d \in History, c \in Card :
              events' = events \cup {Proof(d, c, drafts[d].cards[c])}
  PROVE  Reviews'
<1>1. events \subseteq events' /\ History' = History
  BY DEF History
<1>2. ASSUME NEW e \in events', e.kind = "review"
      PROVE  /\ e.draft \in History /\ e.card \in Card /\ e.mark \in Mark
             /\ drafts[e.draft].cards[e.card].at >= e.mark.at
  <2>1. CASE e \in events
    BY <1>2, <2>1 DEF Reviews
  <2>2. CASE e \notin events
    <3>1. PICK d \in History, c \in Card : e = Proof(d, c, drafts[d].cards[c])
      BY <1>2, <2>2 DEF Link
    <3>2. drafts[d].cards[c] \in Mark /\ drafts[d].cards[c].at \in 0 .. MaxReviews
      BY DEF Line, Content, Mark
    <3> QED BY <3>1, <3>2, DraftRevisionAssumption DEF Proof
  <2> QED BY <2>1, <2>2
<1>3. ASSUME NEW f \in History, Settled(f)'  PROVE Proven(f, drafts[f])'
  <2>1. Settled(f)
    BY <1>3 DEF Settled, Open, Stored, History
  <2> QED BY <1>1, <2>1 DEF Reviews, Proven
<1>4. ASSUME NEW f \in History, NEW k \in Card  PROVE drafts[f].cards[k].at <= now'
  <2>1. drafts[f].cards[k].at <= now /\ drafts[f].cards[k].at \in 0 .. MaxReviews
    BY DEF Reviews, Line, Content, Mark
  <2> QED BY <2>1, DraftRevisionAssumption
<1> QED BY <1>1, <1>2, <1>3, <1>4 DEF Reviews

\* The first write of a plan keeps the line and the reviews, and leaves a legal plan.
LEMMA WriteKeeps ==
  ASSUME Line, Reviews, NEW writes, Perform(Head(writes)), now \in Nat, now' \in Nat,
         (Legal(writes) /\ now' >= now) \/ (Marks(writes) /\ now' = now + 1)
  PROVE  /\ Line' /\ Reviews' /\ History \subseteq History' /\ events \subseteq events'
         /\ Len(writes) # 1 => Legal(Tail(writes))'
<1> DEFINE Kept == Line' /\ Reviews' /\ History \subseteq History' /\ events \subseteq events'
<1>1. ASSUME NEW d \in History, NEW s \in Step, now' >= now,
             Append(d, s) \notin History, Linked(d), \A e \in History : IsPrefix(e, d),
             Proven(d, drafts[d]),
             writes = << Put(Append(d, s), Fresh), Put(d, Superseded(drafts[d])),
                         Log(Link(Append(d, s))) >>
      PROVE  Kept /\ Legal(Tail(writes))'
  <2>1. Perform(Put(Append(d, s), Fresh)) /\ s \in AnyStep
    BY <1>1, HeadTail, StepIs
  <2>2. /\ Line' /\ History' = History \cup {Append(d, s)} /\ UNCHANGED events
        /\ drafts'[d] = drafts[d]
    BY <1>1, <2>1, StoreNew
  <2>3. Reviews'
    BY <1>1, <2>1, StoreNewReviews
  <2>4. Tail(writes) = << Put(d, Superseded(drafts'[d])), Log(Link(Append(d, s))) >>
    BY <1>1, <2>2, HeadTail
  <2>5. Linked(d)' /\ Proven(d, drafts[d])'
    BY <1>1, <2>2 DEF Linked, Proven
  <2>6. Replaces(Tail(writes))'
    BY <2>1, <2>2, <2>4, <2>5 DEF Replaces, Put, Log, Link, Superseded
  <2> QED BY <2>2, <2>3, <2>6 DEF Legal
<1>2. ASSUME NEW d \in History, NEW s \in AnyStep, now' >= now,
             Append(d, s) \in History, Linked(d), Proven(d, drafts[d]),
             writes = << Put(d, Superseded(drafts[d])), Log(Link(Append(d, s))) >>
      PROVE  Kept /\ Legal(Tail(writes))'
  <2>1. Perform(Put(d, Superseded(drafts[d])))
    BY <1>2, HeadTail
  <2>2. /\ Superseded(drafts[d]) \in Content
        /\ Superseded(drafts[d]).status = "superseded"
        /\ Superseded(drafts[d]).cards = drafts[d].cards
    BY Contents DEF Line
  <2>3. /\ Line' /\ History' = History /\ UNCHANGED events
        /\ drafts'[d] = Superseded(drafts[d])
    BY <2>1, <2>2, StoreOld
  <2>4. Reviews'
    BY <1>2, <2>1, <2>2, StoreOldReviews
  <2>5. Tail(writes) = << Log(Link(Append(d, s))) >>
    BY <1>2, HeadTail
  <2>6. Linked(d)'
    BY <1>2, <2>3 DEF Linked
  <2>7. Links(Tail(writes))'
    BY <1>2, <2>2, <2>3, <2>5, <2>6 DEF Links, Log, Link
  <2> QED BY <2>3, <2>4, <2>7 DEF Legal
<1>3. ASSUME Links(writes), now' >= now
      PROVE  Kept /\ Len(writes) = 1
  <2>1. PICK d \in History, s \in AnyStep :
          /\ Append(d, s) \in History /\ Linked(d) /\ drafts[d].status = "superseded"
          /\ writes = << Log(Link(Append(d, s))) >>
    BY <1>3 DEF Links
  <2>2. Perform(Log(Link(Append(d, s)))) /\ Len(writes) = 1
    BY <2>1, HeadTail
  <2>3. /\ Line' /\ History' = History /\ UNCHANGED drafts
        /\ events' = events \cup {Link(Append(d, s))}
    BY <2>1, <2>2, LinkNext
  <2>4. Reviews'
    BY <1>3, <2>3, LogReviews
  <2> QED BY <2>2, <2>3, <2>4
<1>4. ASSUME NEW d \in History, NEW c \in Card, NEW m \in Mark,
             ~ Settled(d), m.at = now + 1, now' = now + 1,
             writes = << Put(d, [drafts[d] EXCEPT !.cards[c] = m]), Log(Proof(d, c, m)) >>
      PROVE  Kept /\ Legal(Tail(writes))'
  <2> DEFINE content == [drafts[d] EXCEPT !.cards[c] = m]
  <2>1. Perform(Put(d, content))
    BY <1>4, HeadTail
  <2>2. /\ content \in Content /\ content.status = drafts[d].status
        /\ content.cards = [drafts[d].cards EXCEPT ![c] = m]
    BY Contents DEF Line
  <2>3. /\ Line' /\ History' = History /\ UNCHANGED events
        /\ Reviews' /\ drafts'[d].cards[c] = m
    <3> HIDE DEF content
    <3>1. Line' /\ History' = History /\ UNCHANGED events
      BY <2>1, <2>2, StoreOld
    <3>2. Reviews' /\ drafts'[d].cards[c] = m
      BY <1>4, <2>1, <2>2, MarkReviews
    <3> QED BY <3>1, <3>2
  <2>4. Tail(writes) = << Log(Proof(d, c, m)) >>
    BY <1>4, HeadTail
  <2>5. Proves(Tail(writes))'
    BY <2>3, <2>4 DEF Proves, Log, Proof
  <2> QED BY <2>3, <2>5 DEF Legal
<1>5. ASSUME Proves(writes), now' >= now
      PROVE  Kept /\ Len(writes) = 1
  <2>1. PICK d \in History, c \in Card, m \in Mark :
          drafts[d].cards[c] = m /\ writes = << Log(Proof(d, c, m)) >>
    BY <1>5 DEF Proves
  <2>2. Perform(Log(Proof(d, c, m))) /\ Len(writes) = 1
    BY <2>1, HeadTail
  <2>3. Line' /\ UNCHANGED drafts /\ events' = events \cup {Proof(d, c, m)}
    BY <2>2, NoLink, LogEffect
  <2>4. Reviews'
    BY <1>5, <2>1, <2>3, LogReviews
  <2> QED BY <2>2, <2>3, <2>4 DEF History
<1>6. ASSUME NEW d, Perform(Note(d)) \/ Perform(Aggregate(d)), now' >= now
      PROVE  Kept /\ UNCHANGED <<drafts, events>>
  <2>1. Line' /\ UNCHANGED <<drafts, events>>
    BY <1>6, NoLink, OtherEffect
  <2>2. Reviews'
    BY <1>6, <2>1, LogReviews
  <2> QED BY <2>1, <2>2 DEF History
<1>7. ASSUME Notes(writes), now' >= now
      PROVE  Kept /\ Len(writes) = 1
  BY <1>6, <1>7, HeadTail DEF Notes
<1>8. ASSUME NEW d \in History, Lineage(d) = {d}, Linked(d), Proven(d, drafts[d]), now' >= now,
             writes = << Aggregate(d), Put(d, [drafts[d] EXCEPT !.status = "decided"]) >>
      PROVE  Kept /\ Legal(Tail(writes))'
  <2>1. Perform(Aggregate(d))
    BY <1>8, HeadTail
  <2>2. Kept /\ UNCHANGED <<drafts, events>>
    BY <1>6, <1>8, <2>1
  <2>3. Tail(writes) = << Put(d, [drafts'[d] EXCEPT !.status = "decided"]) >>
    BY <1>8, <2>2, HeadTail
  <2>4. /\ History' = History /\ Lineage(d)' = Lineage(d)
        /\ Linked(d)' /\ Proven(d, drafts[d])'
    BY <1>8, <2>2 DEF Lineage, History, Linked, Proven
  <2>5. Projects(Tail(writes))'
    BY <1>8, <2>3, <2>4 DEF Projects, Put
  <2> QED BY <2>2, <2>5 DEF Legal
<1>9. ASSUME Projects(writes), now' >= now
      PROVE  Kept /\ Len(writes) = 1
  <2>1. PICK d \in History :
          /\ Lineage(d) = {d} /\ Linked(d) /\ Proven(d, drafts[d])
          /\ writes = << Put(d, [drafts[d] EXCEPT !.status = "decided"]) >>
    BY <1>9 DEF Projects
  <2> DEFINE content == [drafts[d] EXCEPT !.status = "decided"]
  <2>2. content \in Content /\ content.cards = drafts[d].cards
    BY Contents DEF Line
  <2>3. Perform(Put(d, content)) /\ Len(writes) = 1
    BY <2>1, HeadTail
  <2> HIDE DEF content
  <2>4. Line' /\ History' = History /\ UNCHANGED events
    BY <2>1, <2>2, <2>3, StoreOld
  <2>5. Reviews'
    BY <1>9, <2>1, <2>2, <2>3, StoreOldReviews
  <2> QED BY <2>3, <2>4, <2>5
<1>10. CASE Grows(writes) /\ now' >= now
  BY <1>1, <1>10 DEF Grows
<1>11. CASE Replaces(writes) /\ now' >= now
  BY <1>2, <1>11 DEF Replaces
<1>12. CASE Marks(writes) /\ now' = now + 1
  BY <1>4, <1>12 DEF Marks
<1>13. CASE Decides(writes) /\ now' >= now
  BY <1>8, <1>13 DEF Decides
<1> QED BY <1>3, <1>5, <1>7, <1>9, <1>10, <1>11, <1>12, <1>13 DEF Legal

-----------------------------------------------------------------------------
(* What a write leaves *)

\* A draft that all others precede gets a successor, which is the only one that is
\* not linked.
LEMMA GrowRemains ==
  ASSUME Line, Remains, NEW d \in History, NEW s \in Step,
         Append(d, s) \notin History, Linked(d), \A e \in History : IsPrefix(e, d),
         drafts[d].status = "pending", d \notin decided, SpecKept(d),
         s.kind = "model" => s.by = ToChange(drafts[d]),
         Perform(Put(Append(d, s), Fresh))
  PROVE  Remains'
<1> DEFINE c == Append(d, s)
<1>1. /\ History \subseteq Drafts /\ c \in Drafts /\ IsPrefix(d, c) /\ IsPrefix(c, c)
  BY StepIs, PrefixAppend, PrefixOrder DEF Line, History, Drafts
<1>2. \A e \in History \cup {c} : IsPrefix(e, c)
  BY <1>1, PrefixOrder DEF Drafts
<1> HIDE DEF c
<1>3. /\ drafts' = [e \in History \cup {c} |-> IF e = c THEN Fresh ELSE drafts[e]]
      /\ UNCHANGED <<events, latest, decided>>
  BY PutEffect DEF c
<1>4. /\ History' = History \cup {c} /\ drafts'[c] = Fresh /\ c \notin History
      /\ \A e \in History : drafts'[e] = drafts[e]
  BY <1>3 DEF History, c
<1>5. \A e \in History : Linked(e) /\ Linked(e)'
  <2> TAKE e \in History
  <2>1. IsPrefix(d, e) => e = d
    BY <1>1, PrefixOrder DEF Drafts
  <2> QED BY <1>3, <2>1 DEF Remains, Unlinked, Linked
<1>6. \A e \in decided : FALSE
  <2> TAKE e \in decided
  <2>1. e \in History /\ Lineage(e) = {e}
    BY DEF Remains
  <2>2. d \in Lineage(e)
    BY <2>1 DEF Lineage
  <2> QED BY <2>1, <2>2
<1>7. Unlinked(c)'
  <2>1. c = Append(d, s) /\ d \in History' /\ d \notin decided' /\ Linked(d)'
    BY <1>3, <1>4, <1>5 DEF c
  <2>2. drafts'[d] = drafts[d]
    BY <1>4
  <2> QED BY <1>2, <1>4, <2>1, <2>2 DEF Unlinked
<1>8. ~ Linked(c)'
  BY <1>3, <1>4 DEF Linked, Link, Line
<1>9. \A e \in History' : OneMissing(e, drafts[e])'
  <2> TAKE e \in History'
  <2>1. CASE e = c
    BY <1>4, <2>1 DEF OneMissing, Missing, Fresh, Unseen
  <2>2. CASE e \in History
    BY <1>3, <1>4, <2>2 DEF Remains, OneMissing, Missing
  <2> QED BY <1>4, <2>1, <2>2
<1>10. \A e \in History' : Linked(e)' => IsPrefix(e, latest')
  BY <1>3, <1>4, <1>5, <1>8 DEF Remains
<1>11. latest' \in History' /\ Linked(latest)'
  BY <1>3, <1>4, <1>5 DEF Remains
<1>12. \A e \in History' : ~ Linked(e)' => Unlinked(e)'
  BY <1>4, <1>5, <1>7
<1> QED BY <1>3, <1>6, <1>9, <1>10, <1>11, <1>12 DEF Remains

\* A linked draft changes that has no successor, or is superseded.
LEMMA StoreRemains ==
  ASSUME Line, Remains, NEW d \in History, Linked(d), NEW content,
         \/ Lineage(d) = {d}
         \/ content.status = "superseded" /\ content.cards = drafts[d].cards,
         d \in decided => Proven(d, content), OneMissing(d, content),
         Perform(Put(d, content))
  PROVE  Remains'
<1>1. /\ drafts' = [e \in History |-> IF e = d THEN content ELSE drafts[e]]
      /\ UNCHANGED <<events, latest, decided>>
  <2>1. History \cup {d} = History
    OBVIOUS
  <2>2. /\ drafts' = [e \in History \cup {d} |-> IF e = d THEN content ELSE drafts[e]]
        /\ UNCHANGED <<events, latest, decided>>
    BY PutEffect
  <2> QED BY <2>1, <2>2
<1>2. /\ History' = History /\ drafts'[d] = content
      /\ \A e \in History \ {d} : drafts'[e] = drafts[e]
      /\ \A e : Linked(e)' <=> Linked(e)
  BY <1>1 DEF History, Linked
<1>3. ASSUME NEW e \in History, ~ Linked(e)  PROVE Unlinked(e)'
  <2>1. Unlinked(e) /\ e # d
    BY <1>3 DEF Remains
  <2>2. PICK p \in History, s \in Step :
          /\ e = Append(p, s) /\ Linked(p) /\ SpecKept(p) /\ p \notin decided
          /\ drafts[p].status \in {"pending", "superseded"}
          /\ s.kind = "model" => s.by = ToChange(drafts[p])
    BY <2>1 DEF Unlinked
  <2>3. /\ drafts'[p].status \in {"pending", "superseded"}
        /\ ToChange(drafts'[p]) = ToChange(drafts[p])
    <3>1. CASE p # d
      BY <1>2, <2>2, <3>1
    <3>2. CASE p = d
      <4>1. e \in Lineage(d) /\ e # d
        BY <2>1, <2>2, <3>2, StepIs, PrefixAppend DEF Lineage, Line, History, Drafts
      <4>2. content.status = "superseded" /\ content.cards = drafts[d].cards
        BY <4>1
      <4> QED BY <1>2, <3>2, <4>2 DEF ToChange
    <3> QED BY <3>1, <3>2
  <2>4. \A f \in History' : IsPrefix(f, e)
    BY <1>2, <2>1 DEF Unlinked
  <2>5. drafts'[e] = Fresh
    BY <1>2, <2>1 DEF Unlinked
  <2> QED BY <1>1, <1>2, <2>2, <2>3, <2>4, <2>5 DEF Unlinked
<1>4. ASSUME NEW e \in decided
      PROVE  e \in History /\ Lineage(e)' = {e} /\ Linked(e) /\ Proven(e, drafts[e])'
  <2>1. e \in History /\ Lineage(e) = {e} /\ Linked(e) /\ Proven(e, drafts[e])
    BY DEF Remains
  <2>2. Lineage(e)' = Lineage(e)
    BY <1>2 DEF Lineage
  <2>3. Proven(e, drafts[e])'
    BY <1>1, <1>2, <2>1 DEF Proven
  <2> QED BY <2>1, <2>2, <2>3
<1>5. \A e \in History : OneMissing(e, drafts[e])'
  BY <1>1, <1>2 DEF Remains, OneMissing, Missing
<1> QED BY <1>1, <1>2, <1>3, <1>4, <1>5 DEF Remains

\* The timeline grows by a review, or by the link of a stored draft whose
\* predecessors are all linked.
LEMMA LogRemains ==
  ASSUME Line, Remains, NEW event,
         \/ event.kind # "draft"
         \/ \E c \in History : event = Link(c),
         Perform(Log(event))
  PROVE  Remains'
<1>1. /\ events' = events \cup {event}
      /\ latest' = IF event.kind = "draft" /\ event \notin events THEN event.draft ELSE latest
      /\ UNCHANGED <<drafts, decided>>
  BY DEF Perform, Log
<1>2. History' = History /\ \A e : Linked(e) => Linked(e)'
  BY <1>1 DEF History, Linked
<1>3. \A e \in History : ~ Linked(e)' => Unlinked(e)'
  <2> SUFFICES ASSUME NEW e \in History, ~ Linked(e)'  PROVE Unlinked(e)'
    OBVIOUS
  <2>1. Unlinked(e)
    BY <1>2 DEF Remains
  <2> QED BY <1>1, <1>2, <2>1 DEF Unlinked
<1>4. \A e \in decided : e \in History /\ Lineage(e)' = {e} /\ Linked(e)' /\ Proven(e, drafts[e])'
  BY <1>1, <1>2 DEF Remains, Lineage, Proven
<1>5. \A e \in History : OneMissing(e, drafts[e])'
  BY <1>1 DEF Remains, OneMissing, Missing
<1>6. /\ latest' \in History /\ Linked(latest)'
      /\ \A e \in History : Linked(e)' => IsPrefix(e, latest')
  <2>1. CASE event.kind = "draft" /\ event \notin events
    <3>1. PICK c \in History : event = Link(c)
      BY <2>1
    <3>2. Unlinked(c) /\ latest' = c
      BY <1>1, <2>1, <3>1 DEF Remains, Linked, Link
    <3>3. Linked(c)'
      BY <1>1, <3>1 DEF Linked
    <3> QED BY <3>2, <3>3 DEF Unlinked
  <2>2. CASE ~ (event.kind = "draft" /\ event \notin events)
    <3>1. latest' = latest
      BY <1>1, <2>2
    <3>2. \A e : Linked(e)' => Linked(e)
      BY <1>1, <2>2 DEF Linked, Link
    <3> QED BY <1>2, <3>1, <3>2 DEF Remains
  <2> QED BY <2>1, <2>2
<1> QED BY <1>1, <1>2, <1>3, <1>4, <1>5, <1>6 DEF Remains

\* A draft without a successor gets its decision.
LEMMA DecideRemains ==
  ASSUME Line, Remains, NEW d \in History,
         Lineage(d) = {d}, Linked(d), Proven(d, drafts[d]),
         Perform(Aggregate(d))
  PROVE  Remains'
<1>1. /\ decided' = decided \cup {d}
      /\ UNCHANGED <<drafts, events, latest>>
  BY DEF Perform, Aggregate
<1>2. History' = History /\ \A e : Linked(e)' <=> Linked(e)
  BY <1>1 DEF History, Linked
<1>3. ASSUME NEW e \in History, ~ Linked(e)  PROVE Unlinked(e)'
  <2>1. Unlinked(e) /\ e # d
    BY <1>3 DEF Remains
  <2>2. PICK p \in History, s \in Step :
          /\ e = Append(p, s) /\ Linked(p) /\ SpecKept(p) /\ p \notin decided
          /\ drafts[p].status \in {"pending", "superseded"}
          /\ s.kind = "model" => s.by = ToChange(drafts[p])
    BY <2>1 DEF Unlinked
  <2>3. e \in Lineage(p)
    BY <2>2, StepIs, PrefixAppend DEF Lineage, Line, History, Drafts
  <2>4. p # d
    BY <2>1, <2>3
  <2>5. p \notin decided'
    BY <1>1, <2>2, <2>4
  <2>6. (\A f \in History' : IsPrefix(f, e)) /\ drafts'[e] = Fresh
    BY <1>1, <1>2, <2>1 DEF Unlinked
  <2> QED BY <1>1, <1>2, <2>2, <2>5, <2>6 DEF Unlinked
<1>4. \A e \in decided' : e \in History /\ Lineage(e)' = {e} /\ Linked(e) /\ Proven(e, drafts[e])'
  BY <1>1, <1>2 DEF Remains, Lineage, Proven
<1>5. \A e \in History : OneMissing(e, drafts[e])'
  BY <1>1 DEF Remains, OneMissing, Missing
<1> QED BY <1>1, <1>2, <1>3, <1>4, <1>5 DEF Remains

\* The first write of a plan leaves nothing that cannot be continued.
LEMMA WriteRemains ==
  ASSUME Line, Remains, NEW writes, Perform(Head(writes)), now \in Nat,
         Legal(writes) \/ Marks(writes)
  PROVE  Remains'
<1>1. CASE Grows(writes)
  <2>1. PICK d \in History, s \in Step :
          /\ Append(d, s) \notin History /\ Linked(d)
          /\ \A e \in History : IsPrefix(e, d)
          /\ drafts[d].status = "pending" /\ d \notin decided /\ SpecKept(d)
          /\ s.kind = "model" => s.by = ToChange(drafts[d])
          /\ writes = << Put(Append(d, s), Fresh), Put(d, Superseded(drafts[d])),
                         Log(Link(Append(d, s))) >>
    BY <1>1 DEF Grows
  <2>2. Perform(Put(Append(d, s), Fresh))
    BY <2>1, HeadTail
  <2> QED BY <2>1, <2>2, GrowRemains
<1>2. CASE Replaces(writes)
  <2>1. PICK d \in History, s \in AnyStep :
          /\ Append(d, s) \in History /\ Linked(d) /\ Proven(d, drafts[d])
          /\ writes = << Put(d, Superseded(drafts[d])), Log(Link(Append(d, s))) >>
    BY <1>2 DEF Replaces
  <2> DEFINE content == Superseded(drafts[d])
  <2>2. content.status = "superseded" /\ content.cards = drafts[d].cards
    BY Contents DEF Line
  <2>3. Perform(Put(d, content))
    BY <2>1, HeadTail
  <2> HIDE DEF content
  <2>4. Proven(d, content) /\ OneMissing(d, content)
    BY <2>1, <2>2 DEF Proven, OneMissing, Missing
  <2> QED BY <2>1, <2>2, <2>3, <2>4, StoreRemains
<1>3. CASE Links(writes)
  <2>1. PICK d \in History, s \in AnyStep :
          Append(d, s) \in History /\ writes = << Log(Link(Append(d, s))) >>
    BY <1>3 DEF Links
  <2>2. Perform(Log(Link(Append(d, s))))
    BY <2>1, HeadTail
  <2> QED BY <2>1, <2>2, LogRemains
<1>4. CASE Marks(writes)
  <2>1. PICK d \in History, c \in Card, m \in Mark :
          /\ ~ Settled(d) /\ Linked(d) /\ Proven(d, drafts[d]) /\ d \notin decided
          /\ writes = << Put(d, [drafts[d] EXCEPT !.cards[c] = m]), Log(Proof(d, c, m)) >>
    BY <1>4 DEF Marks
  <2> DEFINE content == [drafts[d] EXCEPT !.cards[c] = m]
  <2>2. content.cards = [drafts[d].cards EXCEPT ![c] = m]
    BY Contents DEF Line
  <2>3. Perform(Put(d, content))
    BY <2>1, HeadTail
  <2> HIDE DEF content
  <2>4. \A k \in Card \ {c} : content.cards[k] = drafts[d].cards[k]
    BY <2>2 DEF Line, Content
  <2>5. OneMissing(d, content)
    BY <2>1, <2>4 DEF Proven, OneMissing, Missing
  <2>6. Lineage(d) = {d}
    BY <2>1, PrefixOrder DEF Settled, Lineage, IsStrictPrefix, Line, History, Drafts
  <2> QED BY <2>1, <2>3, <2>5, <2>6, StoreRemains
<1>5. CASE Proves(writes)
  <2>1. PICK d \in History, c \in Card, m \in Mark : writes = << Log(Proof(d, c, m)) >>
    BY <1>5 DEF Proves
  <2>2. Perform(Log(Proof(d, c, m))) /\ Proof(d, c, m).kind # "draft"
    BY <2>1, HeadTail DEF Proof
  <2> QED BY <2>2, LogRemains
<1>6. CASE Notes(writes)
  <2>1. PICK d \in History : writes = << Note(d) >>
    BY <1>6 DEF Notes
  <2>2. Perform(Note(d))
    BY <2>1, HeadTail
  <2>3. UNCHANGED <<drafts, events, latest, decided>>
    BY <2>2 DEF Perform, Note
  <2> QED BY <2>3 DEF Remains, Unlinked, Linked, Lineage, Proven, OneMissing, Missing, History
<1>7. CASE Decides(writes)
  <2>1. PICK d \in History :
          /\ Lineage(d) = {d} /\ Linked(d) /\ Proven(d, drafts[d])
          /\ writes = << Aggregate(d), Put(d, [drafts[d] EXCEPT !.status = "decided"]) >>
    BY <1>7 DEF Decides
  <2>2. Perform(Aggregate(d))
    BY <2>1, HeadTail
  <2> QED BY <2>1, <2>2, DecideRemains
<1>8. CASE Projects(writes)
  <2>1. PICK d \in History :
          /\ Lineage(d) = {d} /\ Linked(d) /\ Proven(d, drafts[d])
          /\ writes = << Put(d, [drafts[d] EXCEPT !.status = "decided"]) >>
    BY <1>8 DEF Projects
  <2> DEFINE content == [drafts[d] EXCEPT !.status = "decided"]
  <2>2. content.cards = drafts[d].cards
    BY Contents DEF Line
  <2>3. Perform(Put(d, content))
    BY <2>1, HeadTail
  <2> HIDE DEF content
  <2>4. Proven(d, content) /\ OneMissing(d, content)
    BY <2>1, <2>2 DEF Proven, OneMissing, Missing
  <2> QED BY <2>1, <2>3, <2>4, StoreRemains
<1> QED BY <1>1, <1>2, <1>3, <1>4, <1>5, <1>6, <1>7, <1>8 DEF Legal

-----------------------------------------------------------------------------
(* What a request plans is legal *)

\* The draft and what it succeeds are the prefixes.
LEMMA OriginsAre ==
  ASSUME NEW d \in Drafts
  PROVE  \A e : e \in Origins(d) <=> e \in Drafts /\ IsPrefix(e, d)
<1>1. ASSUME NEW e \in Drafts, IsPrefix(e, d)  PROVE e \in Origins(d)
  <2>1. e = SubSeq(e, 1, Len(e)) /\ Len(e) \in 0 .. Len(d)
    BY <1>1 DEF Drafts, IsPrefix
  <2>2. e = SubSeq(d, 1, Len(e))
    BY <1>1, <2>1 DEF IsPrefix
  <2> QED BY <2>1, <2>2 DEF Origins, Prefixes
<1>2. ASSUME NEW n \in 0 .. Len(d)  PROVE SubSeq(d, 1, n) \in Drafts /\ IsPrefix(SubSeq(d, 1, n), d)
  <2> DEFINE e == SubSeq(d, 1, n)
  <2>1. e \in Drafts /\ Len(e) = n /\ \A i \in 1 .. n : e[i] = d[i]
    BY DEF Drafts
  <2>2. n <= Len(d)
    BY DEF Drafts
  <2> HIDE DEF e
  <2>3. IsPrefix(e, d)
    BY <2>1, <2>2, PrefixAgrees DEF Drafts
  <2> QED BY <2>1, <2>3 DEF e
<1> QED BY <1>1, <1>2 DEF Origins, Prefixes

\* Whatever is read of an unchanged draft.
LEMMA SeenIs ==
  ASSUME NEW d \in History, NEW seen, Unchanged(d, seen)
  PROVE  seen = drafts[d]
BY DEF Unchanged, Read, Stored

\* A refused request plans nothing.
LEMMA Planned ==
  ASSUME NEW condition, NEW writes, If(condition, writes) # << >>
  PROVE  condition /\ If(condition, writes) = writes
BY DEF If

LEMMA Concatenation ==
  ASSUME NEW a, NEW b, NEW c
  PROVE  << a >> \o << b, c >> = << a, b, c >>
<1> DEFINE S == {a, b, c}
           p == << a >>
           q == << b, c >>
           r == << a, b, c >>
<1>1. p \in Seq(S) /\ q \in Seq(S) /\ r \in Seq(S)
  OBVIOUS
<1>2. /\ Len(p) = 1 /\ p[1] = a
      /\ Len(q) = 2 /\ q[1] = b /\ q[2] = c
      /\ Len(r) = 3 /\ r[1] = a /\ r[2] = b /\ r[3] = c
  OBVIOUS
<1> HIDE DEF S, p, q, r
<1>3. /\ p \o q \in Seq(S) /\ Len(p \o q) = 3
      /\ (p \o q)[1] = a /\ (p \o q)[2] = b /\ (p \o q)[3] = c
  <2>1. /\ p \o q \in Seq(S) /\ Len(p \o q) = Len(p) + Len(q)
        /\ \A i \in 1 .. Len(p) + Len(q) :
             (p \o q)[i] = IF i <= Len(p) THEN p[i] ELSE q[i - Len(p)]
    BY <1>1, ConcatProperties
  <2>2. /\ p \o q \in Seq(S) /\ Len(p \o q) = 3
        /\ \A i \in 1 .. 3 : (p \o q)[i] = IF i <= 1 THEN p[i] ELSE q[i - 1]
    BY <1>2, <2>1
  <2>3. (p \o q)[1] = p[1] /\ (p \o q)[2] = q[2 - 1] /\ (p \o q)[3] = q[3 - 1]
    BY <2>2
  <2>4. 2 - 1 = 1 /\ 3 - 1 = 2
    OBVIOUS
  <2> QED BY <1>2, <2>2, <2>3, <2>4
<1>4. \A i \in 1 .. Len(p \o q) : (p \o q)[i] = r[i]
  BY <1>2, <1>3
<1>5. p \o q = r
  BY <1>1, <1>2, <1>3, <1>4, SeqEqual
<1> QED BY <1>5 DEF p, q, r

\* The next draft of a stored one.
LEMMA NextDraft ==
  ASSUME NEW job \in Job, NEW seen, job.kind = "model" => ToChange(seen) # {}
  PROVE  /\ \A d : job.draft = d => Child(job, seen) = Append(d, StepOf(job, seen))
         /\ job.kind # "review" =>
              /\ StepOf(job, seen) \in Step /\ StepOf(job, seen) \in AnyStep
              /\ StepOf(job, seen).kind = "model" => StepOf(job, seen).by = ToChange(seen)
<1>1. Child(job, seen) = Append(job.draft, StepOf(job, seen))
  BY DEF Child
<1>2. job.kind \in {"review", "prepare", "command", "model"}
      /\ (job.kind = "command" => job.command \in Command)
  BY DEF Job
<1>3. ToChange(seen) \subseteq Card
  BY DEF ToChange
<1>4. job.kind # "review" =>
        /\ StepOf(job, seen) \in Step
        /\ StepOf(job, seen).kind = "model" => StepOf(job, seen).by = ToChange(seen)
  <2>1. CASE job.kind = "prepare"
    BY <2>1 DEF StepOf, Step
  <2>2. CASE job.kind = "command"
    BY <1>2, <2>2 DEF StepOf, Step
  <2>3. CASE job.kind = "model"
    BY <1>3, <2>3 DEF StepOf, Step
  <2> QED BY <1>2, <2>1, <2>2, <2>3
<1> QED BY <1>1, <1>4, StepIs

\* A draft that can be replaced and all of whose successors are linked has none.
LEMMA Topmost ==
  ASSUME Line, NEW d \in History, drafts[d].status = "pending",
         NEW but, but \cap History = {}, LineageLinked(d, but)
  PROVE  \A e \in History : IsPrefix(e, d)
<1> SUFFICES ASSUME NEW e \in History, ~ IsPrefix(e, d)  PROVE FALSE
  OBVIOUS
<1>1. IsPrefix(d, e)
  BY DEF Line, OneHistory
<1>2. e # d
  BY PrefixOrder DEF Line, History, Drafts
<1>3. Linked(e)
  BY <1>1 DEF LineageLinked, Lineage
<1> QED BY <1>1, <1>2, <1>3, Successor

\* A draft is in its own lineage.
LEMMA Itself ==
  ASSUME Line, NEW d \in History, NEW but, LineageLinked(d, but), d \notin but
  PROVE  Linked(d)
<1>1. d \in Lineage(d)
  BY PrefixOrder DEF Lineage, Line, History, Drafts
<1> QED BY <1>1 DEF LineageLinked

\* What the projection of the reviews says of the draft itself.
LEMMA ProvenItself ==
  ASSUME NEW d \in Drafts, NEW content, ReviewsProven(d, content, << >>)
  PROVE  Proven(d, content)
<1>1. d \in Origins(d)
  BY OriginsAre, PrefixOrder DEF Drafts
<1> QED BY <1>1, HeadTail DEF ReviewsProven, Proven

\* A step that stores the new draft, supersedes the old one and links the new one.
LEMMA GrowsLegal ==
  ASSUME Line, NEW d \in History, NEW s \in Step, NEW seen, NEW but,
         SpecKept(d), s.kind = "model" => s.by = ToChange(seen),
         Replaceable(d, seen), Append(d, s) \notin History, Proven(d, seen),
         but \subseteq {Append(d, s)}, LineageLinked(d, but)
  PROVE  Legal(<< Put(Append(d, s), Fresh) >> \o Supersede(d, seen, Append(d, s)))
<1> DEFINE c == Append(d, s)
<1>1. seen = drafts[d] /\ drafts[d].status = "pending" /\ d \notin decided
  BY DEF Replaceable, Unchanged, Read, Stored
<1>2. \A e \in History : IsPrefix(e, d)
  BY <1>1, Topmost
<1>3. Linked(d)
  BY Itself, StepIs, PrefixAppend DEF Line, History, Drafts
<1>4. << Put(c, Fresh) >> \o Supersede(d, seen, c)
        = << Put(c, Fresh), Put(d, Superseded(drafts[d])), Log(Link(c)) >>
  BY <1>1, Concatenation DEF Supersede
<1> QED BY <1>1, <1>2, <1>3, <1>4 DEF Legal, Grows

\* A step whose new draft is there already.
LEMMA ReplacesLegal ==
  ASSUME Line, NEW d \in History, NEW s \in AnyStep, NEW seen,
         Replaceable(d, seen), Append(d, s) \in History, Proven(d, seen),
         LineageLinked(d, {Append(d, s)})
  PROVE  Legal(Supersede(d, seen, Append(d, s)))
<1>1. seen = drafts[d]
  BY DEF Replaceable, Unchanged, Read, Stored
<1>2. Linked(d)
  BY Itself, PrefixAppend DEF Line, History, Drafts
<1> QED BY <1>1, <1>2 DEF Legal, Replaces, Supersede

\* A step of which only the event is missing.
LEMMA LinksLegal ==
  ASSUME Line, NEW d \in History, NEW s \in AnyStep,
         drafts[d].status = "superseded", Append(d, s) \in History,
         LineageLinked(d, {Append(d, s)})
  PROVE  Legal(<< Log(Link(Append(d, s))) >>)
<1>1. Linked(d)
  BY Itself, PrefixAppend DEF Line, History, Drafts
<1> QED BY <1>1 DEF Legal, Links

\* What a review plans.
LEMMA ReviewLegal ==
  ASSUME Line, now \in 0 .. MaxReviews, NEW job \in Job, job.kind = "review",
         NEW seen, seen.status = "pending", ReviewWrites(job, seen) # << >>
  PROVE  \/ Marks(ReviewWrites(job, seen)) /\ Len(ReviewWrites(job, seen)) = 2 /\ now < MaxReviews
         \/ Proves(ReviewWrites(job, seen)) /\ Len(ReviewWrites(job, seen)) = 1
<1> DEFINE d == job.draft
           c == job.card
           mark == drafts[d].cards[c]
           new == [verdict |-> job.verdict, at |-> now + 1]
           repeated == mark.verdict = job.verdict /\ mark.at # 0
<1>1. /\ Unchanged(d, seen) /\ LineageLinked(d, {}) /\ (repeated \/ now < MaxReviews)
      /\ d \notin decided /\ (~ repeated => ReviewsProven(d, drafts[d], << >>))
      /\ ReviewWrites(job, seen) =
           IF repeated THEN << Log(Proof(d, c, mark)) >>
           ELSE << Put(d, [seen EXCEPT !.cards[c] = new]), Log(Proof(d, c, new)) >>
  BY Planned DEF ReviewWrites
<1>2. d \in History /\ seen = drafts[d] /\ drafts[d].status = "pending"
  BY <1>1, SeenIs DEF LineageLinked, Stored
<1>3. c \in Card /\ job.verdict \in Verdict \cup {"change"}
  BY DEF Job
<1>4. mark \in Mark
  BY <1>2, <1>3 DEF Line, Content
<1>5. ~ repeated => new \in Mark /\ new.at = now + 1
  BY <1>1, <1>3, DraftRevisionAssumption DEF Mark
<1>6. ~ Settled(d)
  <2>1. \A e \in History : IsPrefix(e, d)
    BY <1>1, <1>2, Topmost
  <2> QED BY <1>2, <2>1, PrefixOrder
             DEF Settled, IsStrictPrefix, Open, Stored, Line, History, Drafts
<1>7. Linked(d) /\ (~ repeated => Proven(d, drafts[d]))
  BY <1>1, <1>2, Itself, ProvenItself DEF Line, History
<1>8. CASE repeated
  <2>1. drafts[d].cards[c] = mark
    OBVIOUS
  <2> HIDE DEF mark, new, repeated, d, c
  <2> QED BY <1>1, <1>2, <1>3, <1>4, <1>8, <2>1, HeadTail DEF Proves
<1>9. CASE ~ repeated
  <2> HIDE DEF mark, new, repeated, d, c
  <2> QED BY <1>1, <1>2, <1>3, <1>5, <1>6, <1>7, <1>9, HeadTail DEF Marks
<1> QED BY <1>8, <1>9

\* What the first preparation and a revision by the model plan.
LEMMA CommitLegal ==
  ASSUME Line, NEW job \in Job, job.kind # "review", NEW seen, Proven(job.draft, seen),
         job.kind = "model" => ToChange(seen) # {},
         CommitWrites(job, seen) # << >>
  PROVE  Legal(CommitWrites(job, seen))
<1>1. PICK d, s : d = job.draft /\ s = StepOf(job, seen)
  OBVIOUS
<1>2. /\ Child(job, seen) = Append(d, s) /\ s \in Step
      /\ s.kind = "model" => s.by = ToChange(seen)
  BY <1>1, NextDraft
<1>3. /\ LineageLinked(d, {}) /\ SpecKept(d)
      /\ Replaceable(d, seen) /\ ~ Stored(Append(d, s))
      /\ CommitWrites(job, seen)
           = << Put(Append(d, s), Fresh) >> \o Supersede(d, seen, Append(d, s))
  BY <1>1, <1>2, Planned DEF CommitWrites
<1>4. d \in History /\ Append(d, s) \notin History
  BY <1>3 DEF LineageLinked, Stored
<1> QED BY <1>1, <1>2, <1>3, <1>4, GrowsLegal

\* What a preparation that was found plans.
LEMMA RecoverLegal ==
  ASSUME Line, NEW job \in Job, job.kind # "review", NEW seen, Proven(job.draft, seen),
         job.kind = "model" => ToChange(seen) # {},
         Child(job, seen) \in History,
         RecoverWrites(job, seen) # << >>
  PROVE  Legal(RecoverWrites(job, seen))
<1>1. PICK d, s : d = job.draft /\ s = StepOf(job, seen)
  OBVIOUS
<1>2. Child(job, seen) = Append(d, s) /\ s \in AnyStep /\ Append(d, s) \in History
  BY <1>1, NextDraft
<1>3. LineageLinked(d, {Append(d, s)})
  BY <1>1, <1>2, Planned DEF RecoverWrites
<1>4. d \in History
  BY <1>3 DEF LineageLinked, Stored
<1>5. CASE drafts[d].status = "superseded"
  <2>1. RecoverWrites(job, seen) = << Log(Link(Append(d, s))) >>
    BY <1>1, <1>2, <1>5 DEF RecoverWrites, If
  <2> QED BY <1>2, <1>3, <1>4, <1>5, <2>1, LinksLegal
<1>6. CASE drafts[d].status # "superseded"
  <2>1. /\ Replaceable(d, seen)
        /\ RecoverWrites(job, seen) = Supersede(d, seen, Append(d, s))
    BY <1>1, <1>2, <1>6 DEF RecoverWrites, If
  <2> QED BY <1>1, <1>2, <1>3, <1>4, <2>1, ReplacesLegal
<1> QED BY <1>5, <1>6

\* What a revision that was found plans.
LEMMA RepairLegal ==
  ASSUME Line, NEW job \in Job, job.kind # "review", NEW seen \in Content, NEW found,
         job.kind = "model" => ToChange(seen) # {},
         Child(job, seen) \in History,
         RepairWrites(job, seen, found) # << >>
  PROVE  Legal(RepairWrites(job, seen, found))
<1>1. PICK d, s : d = job.draft /\ s = StepOf(job, seen)
  OBVIOUS
<1>2. Child(job, seen) = Append(d, s) /\ s \in AnyStep /\ Append(d, s) \in History
  BY <1>1, NextDraft
<1>3. /\ LineageLinked(d, {Append(d, s)})
      /\ drafts[d] = Superseded(seen)
      /\ RepairWrites(job, seen, found) = << Log(Link(Append(d, s))) >>
  BY <1>1, <1>2, Planned DEF RepairWrites
<1>4. d \in History /\ drafts[d].status = "superseded"
  BY <1>3, Contents DEF LineageLinked, Stored
<1> QED BY <1>2, <1>3, <1>4, LinksLegal

\* What a command plans.
LEMMA CommandLegal ==
  ASSUME Line, NEW job \in Job, job.kind # "review", NEW seen \in Content,
         job.kind = "model" => ToChange(seen) # {},
         CommandWrites(job, seen) # << >>
  PROVE  Legal(CommandWrites(job, seen))
<1>1. PICK d, s : d = job.draft /\ s = StepOf(job, seen)
  OBVIOUS
<1>2. /\ Child(job, seen) = Append(d, s) /\ s \in Step /\ s \in AnyStep
      /\ s.kind = "model" => s.by = ToChange(seen)
  BY <1>1, NextDraft
<1>3. /\ LineageLinked(d, {Append(d, s)}) /\ ReviewsProven(d, seen, << >>)
      /\ SpecKept(d)
  BY <1>1, <1>2, Planned DEF CommandWrites
<1>4. d \in History /\ Proven(d, seen)
  BY <1>3, ProvenItself DEF LineageLinked, Stored, Line, History
<1>5. CASE ~ Stored(Append(d, s))
  <2>1. /\ Replaceable(d, seen)
        /\ CommandWrites(job, seen)
             = << Put(Append(d, s), Fresh) >> \o Supersede(d, seen, Append(d, s))
    BY <1>1, <1>2, <1>5 DEF CommandWrites, If
  <2> QED BY <1>2, <1>3, <1>4, <1>5, <2>1, GrowsLegal DEF Stored
<1>6. CASE Stored(Append(d, s)) /\ drafts[d].status = "pending"
  <2>1. /\ Replaceable(d, seen)
        /\ CommandWrites(job, seen) = Supersede(d, seen, Append(d, s))
    BY <1>1, <1>2, <1>6 DEF CommandWrites, If
  <2> QED BY <1>2, <1>3, <1>4, <1>6, <2>1, ReplacesLegal DEF Stored
<1>7. CASE Stored(Append(d, s)) /\ drafts[d].status # "pending"
  <2>1. /\ drafts[d] = Superseded(seen)
        /\ CommandWrites(job, seen) = << Log(Link(Append(d, s))) >>
    BY <1>1, <1>2, <1>7 DEF CommandWrites, If
  <2>2. drafts[d].status = "superseded"
    BY <2>1, Contents
  <2> QED BY <1>2, <1>3, <1>4, <1>7, <2>1, <2>2, LinksLegal DEF Stored
<1> QED BY <1>5, <1>6, <1>7

\* What planning evidence and a decision plan.
LEMMA TakenLegal ==
  ASSUME Line, NEW d \in History, NEW writes,
         writes \in {EvidenceWrites(d), DecisionWrites(d)}, writes # << >>
  PROVE  Legal(writes)
<1>1. CASE writes = EvidenceWrites(d)
  BY <1>1, Planned DEF EvidenceWrites, Legal, Notes
<1>2. CASE writes = DecisionWrites(d)
  <2>1. /\ Lineage(d) = {d} /\ ReviewsProven(d, drafts[d], << >>)
        /\ writes = << Aggregate(d), Put(d, [drafts[d] EXCEPT !.status = "decided"]) >>
    BY <1>2, Planned DEF DecisionWrites, Current
  <2>2. Proven(d, drafts[d]) /\ d \in Drafts
    BY <2>1, ProvenItself DEF Line, History
  <2>3. d \in Origins(d) /\ d \in Lineage(d)
    BY <2>1, <2>2, OriginsAre, PrefixOrder DEF Drafts
  <2>4. Linked(d)
    BY <1>2, <2>3, Planned DEF DecisionWrites, Current
  <2> QED BY <2>1, <2>2, <2>4 DEF Legal, Decides
<1> QED BY <1>1, <1>2

-----------------------------------------------------------------------------
(* The invariant *)

\* Nobody writes outside the critical section.
LEMMA OneWriter ==
  ASSUME Tasks, NEW w \in Worker, lock \in {None, w}
  PROVE  \A v \in Worker : task[v].pc = "writing" => v = w
BY DraftRevisionAssumption DEF Tasks

\* A plan stays legal while the drafts and the timeline stay.
LEMMA LegalStays ==
  ASSUME UNCHANGED <<drafts, events, decided>>, NEW writes, Legal(writes)
  PROVE  Legal(writes)'
BY DEF Legal, Grows, Replaces, Links, Proves, Notes, Decides, Projects, Proven,
       History, Linked, Lineage, Put, Log, Link, Proof, Note, Aggregate, Superseded

\* What a request that is not writing becomes.
LEMMA TaskChanges ==
  ASSUME Tasks, NEW w \in Worker, NEW t, t = TaskOf(t),
         task' = [task EXCEPT ![w] = t], UNCHANGED <<drafts, events, decided, lock>>,
         task[w].pc # "writing", t.pc # "writing", Knows(t)
  PROVE  Tasks'
<1>1. /\ task'[w] = t
      /\ \A v \in Worker \ {w} : task'[v] = task[v]
      /\ task' = [v \in Worker |-> task'[v]]
  BY DEF Tasks
<1>2. Knows(t)' /\ \A v \in Worker : Knows(task[v])'
  BY DEF Tasks, Knows, History, Proven
<1>3. task' = [v \in Worker |-> TaskOf(task'[v])]
  BY <1>1 DEF Tasks, TaskOf
<1>4. \A v \in Worker \ {w} : task[v].pc = "writing" => Legal(task[v].plan)'
  BY LegalStays DEF Tasks
<1>5. ASSUME NEW v \in Worker
      PROVE  /\ Knows(task[v])' /\ (task'[v].pc = "writing" <=> lock' = v)
             /\ task'[v].pc = "writing" => Legal(task[v].plan)'
  <2>1. CASE v = w
    BY <1>1, <1>2, <2>1 DEF Tasks, Knows
  <2>2. CASE v # w
    BY <1>1, <1>2, <1>4, <2>2 DEF Tasks, Knows
  <2> QED BY <2>1, <2>2
<1> QED BY <1>3, <1>5 DEF Tasks

\* A request that performs a write.
LEMMA ContinueKeeps ==
  ASSUME Line, Reviews, Remains, Tasks, NEW w \in Worker, lock \in {None, w},
         NEW writes, Continue(w, writes), now \in Nat, now' \in Nat,
         (Legal(writes) /\ now' >= now) \/ (Marks(writes) /\ now' = now + 1)
  PROVE  Line' /\ Reviews' /\ Remains' /\ Tasks'
<1>1. /\ Line' /\ Reviews' /\ History \subseteq History' /\ events \subseteq events'
      /\ Len(writes) # 1 => Legal(Tail(writes))'
      /\ Remains'
  BY WriteKeeps, WriteRemains DEF Continue
<1> DEFINE rest == [Idle EXCEPT !.pc = "writing", !.plan = Tail(writes)]
           t == IF Len(writes) = 1 THEN Idle ELSE rest
<1>2. /\ task' = [task EXCEPT ![w] = t]
      /\ lock' = IF Len(writes) = 1 THEN None ELSE w
  BY DEF Continue, Finish
<1>3. t = TaskOf(t) /\ Knows(t)'
  BY DEF Idle, TaskOf, Knows
<1>4. /\ Len(writes) = 1 => t.pc = "idle"
      /\ Len(writes) # 1 => t.pc = "writing" /\ t.plan = Tail(writes)
  BY DEF Idle
<1> HIDE DEF t
<1>5. /\ task'[w] = t
      /\ \A v \in Worker \ {w} : task'[v] = task[v]
      /\ task' = [v \in Worker |-> task'[v]]
  BY <1>2 DEF Tasks
<1>6. \A v \in Worker \ {w} : task[v].pc # "writing"
  BY OneWriter
<1>7. task' = [v \in Worker |-> TaskOf(task'[v])]
  BY <1>3, <1>5 DEF Tasks, TaskOf
<1>8. ASSUME NEW v \in Worker
      PROVE  /\ Knows(task[v])' /\ (task'[v].pc = "writing" <=> lock' = v)
             /\ task'[v].pc = "writing" => Legal(task[v].plan)'
  <2>1. CASE v = w
    <3>1. CASE Len(writes) = 1
      BY <1>2, <1>3, <1>4, <1>5, <2>1, <3>1, DraftRevisionAssumption DEF Knows
    <3>2. CASE Len(writes) # 1
      BY <1>1, <1>2, <1>3, <1>4, <1>5, <2>1, <3>2 DEF Knows
    <3> QED BY <3>1, <3>2
  <2>2. CASE v # w
    <3>1. Knows(task[v])'
      BY <1>1, <1>5, <2>2 DEF Tasks, Knows, Proven
    <3>2. lock' # v
      BY <1>2, <2>2, DraftRevisionAssumption
    <3> QED BY <1>5, <1>6, <2>2, <3>1, <3>2
  <2> QED BY <2>1, <2>2
<1> QED BY <1>1, <1>7, <1>8 DEF Tasks

\* A request that performs a write of a legal plan.
LEMMA ContinueLegal ==
  ASSUME IInv, NEW w \in Worker, lock \in {None, w},
         NEW writes, Continue(w, writes), Legal(writes), UNCHANGED now
  PROVE  IInv'
<1>1. now \in 0 .. MaxReviews /\ now' \in 0 .. MaxReviews
  BY DEF IInv
<1>2. now \in Nat /\ now' \in Nat /\ now' >= now
  BY <1>1, DraftRevisionAssumption
<1>3. Line /\ Reviews /\ Remains /\ Tasks
  BY DEF IInv
<1>4. (Legal(writes) /\ now' >= now) \/ (Marks(writes) /\ now' = now + 1)
  BY <1>2
<1>5. Line' /\ Reviews' /\ Remains' /\ Tasks'
  BY <1>2, <1>3, <1>4, ContinueKeeps
<1> QED BY <1>1, <1>5 DEF IInv

\* A case that was just opened.
LEMMA InitHolds == Init => IInv
<1> SUFFICES ASSUME Init  PROVE IInv
  OBVIOUS
<1>1. History = {First} /\ First \in Drafts
  BY DEF Init, History, First, Drafts
<1>2. drafts \in [History -> Content]
  BY <1>1, Contents DEF Init
<1>3. OneHistory
  BY <1>1, PrefixOrder DEF OneHistory, IsStrictPrefix, Drafts
<1>4. Line
  BY <1>1, <1>2, <1>3 DEF Line, Init, History, Link
<1>5. \A d \in History, e \in Drafts : IsPrefix(e, d) => e \in History
  BY <1>1, PrefixOrder DEF IsPrefix, First, Drafts
<1>6. Reviews
  BY <1>1, <1>5, DraftRevisionAssumption
     DEF Reviews, Init, Link, Fresh, Unseen, Settled, Open, Stored, Proven, IsStrictPrefix
<1>7. Tasks
  BY DraftRevisionAssumption DEF Tasks, Init, Idle, TaskOf, Knows
<1>8. Remains
  <2>1. Linked(First) /\ decided = {} /\ latest = First /\ IsPrefix(First, First)
    BY <1>1, PrefixOrder DEF Init, Linked, Drafts
  <2>2. OneMissing(First, drafts[First])
    BY DEF Init, OneMissing, Missing, Fresh, Unseen
  <2> QED BY <1>1, <2>1, <2>2 DEF Remains
<1> QED BY <1>4, <1>6, <1>7, <1>8, DraftRevisionAssumption DEF IInv, Init

\* Every step of every request keeps the invariant.
LEMMA StepKeeps == IInv /\ [Next]_vars => IInv'
<1> SUFFICES ASSUME IInv, [Next]_vars  PROVE IInv'
  OBVIOUS
<1> USE DEF IInv
\* What stays when only tasks change.
<1>1. ASSUME UNCHANGED <<drafts, events, latest, decided, now>>
      PROVE  Line' /\ Reviews' /\ Remains' /\ now' \in 0 .. MaxReviews
  <2>1. Line'
    BY <1>1 DEF Line, OneHistory, History, Linked
  <2>2. Reviews'
    BY <1>1 DEF Reviews, Settled, Proven, Open, Stored, History
  <2>3. Remains'
    BY <1>1 DEF Remains, Unlinked, Linked, Lineage, Proven, OneMissing, Missing, History
  <2> QED BY <1>1, <2>1, <2>2, <2>3
<1> now \in Nat
  BY DraftRevisionAssumption
<1>2. ASSUME NEW w \in Worker, NEW job \in Job, Ask(w, job)  PROVE IInv'
  <2> DEFINE t == [pc |-> IF Checked(job) THEN "checked" ELSE "ready",
                   job |-> job, seen |-> drafts[job.draft], found |-> None, plan |-> << >>]
  <2>1. /\ task' = [task EXCEPT ![w] = t] /\ UNCHANGED <<stored, lock, now>>
        /\ task[w].pc # "writing"
    BY <1>2 DEF Ask, At
  <2>2. job.draft \in History /\ drafts[job.draft] \in Content
    BY <1>2 DEF Ask, Admitted, Stored, Line
  <2>3. Checked(job) => Proven(job.draft, drafts[job.draft])
    BY <1>2, <2>2, ProvenItself DEF Ask, Admitted, Line, History
  <2>4. job.kind = "review" => drafts[job.draft].status = "pending"
    BY <1>2 DEF Ask, Admitted, Open
  <2>5. job.kind = "model" => ToChange(drafts[job.draft]) # {}
    BY <1>2 DEF Ask, Admitted
  <2>6. t = TaskOf(t) /\ Knows(t) /\ t.pc # "writing"
    BY <2>2, <2>3, <2>4, <2>5 DEF TaskOf, Knows
  <2> HIDE DEF t
  <2>7. Tasks'
    BY <2>1, <2>6, TaskChanges DEF stored
  <2> QED BY <1>1, <2>1, <2>7 DEF stored
\* A request that stops without a write.
<1>3. ASSUME NEW w \in Worker, Finish(w), UNCHANGED <<stored, lock, now>>, task[w].pc # "writing"
      PROVE  IInv'
  <2>1. Idle = TaskOf(Idle) /\ Knows(Idle) /\ Idle.pc # "writing"
    BY DEF Idle, TaskOf, Knows
  <2>2. Tasks'
    BY <1>3, <2>1, TaskChanges DEF Finish, stored
  <2> QED BY <1>1, <1>3, <2>2 DEF stored
\* A request that has looked for the next draft.
<1>4. ASSUME NEW w \in Worker, task[w].pc \in {"checked", "refused"},
             NEW point \in {"ready", "repair"},
             point = "repair" => Stored(Child(task[w].job, task[w].seen)),
             Find(w, point, Child(task[w].job, task[w].seen)),
             UNCHANGED <<stored, lock, now>>
      PROVE  IInv'
  <2> DEFINE child == Child(task[w].job, task[w].seen)
             t == [pc |-> point, job |-> task[w].job, seen |-> task[w].seen,
                   found |-> Read(child), plan |-> << >>]
  <2>1. Knows(task[w])
    BY DEF Tasks
  <2>2. t = TaskOf(t)
    BY DEF TaskOf
  <2>3. Read(child) # None => child \in History
    BY DEF Read, Stored
  <2>4. Knows(t)
    BY <1>4, <2>1, <2>3 DEF Knows, Stored
  <2>5. task' = [task EXCEPT ![w] = t] /\ t.pc # "writing"
    BY <1>4 DEF Find
  <2> HIDE DEF t
  <2>6. Tasks'
    BY <1>4, <2>2, <2>4, <2>5, TaskChanges DEF stored
  <2> QED BY <1>1, <1>4, <2>6 DEF stored
<1>5. ASSUME NEW w \in Worker, Look(w)  PROVE IInv'
  BY <1>3, <1>4, <1>5 DEF Look, At
<1>6. ASSUME NEW w \in Worker, Reconsider(w)  PROVE IInv'
  BY <1>3, <1>4, <1>6 DEF Reconsider, At
<1>7. ASSUME NEW w \in Worker, Enter(w)  PROVE IInv'
  <2> DEFINE t == task[w]
             writes == Writes(t.job, t.seen, t.found)
  <2>1. /\ lock = None /\ t.pc = "ready"
        /\ t = TaskOf(t) /\ t.job \in Job /\ t.seen \in Content
        /\ t.found # None => Child(t.job, t.seen) \in History
        /\ Checked(t.job) => Proven(t.job.draft, t.seen)
        /\ t.job.kind = "review" => t.seen.status = "pending"
        /\ t.job.kind = "model" => ToChange(t.seen) # {}
    BY <1>7 DEF Enter, At, Tasks, Knows
  <2>2. CASE writes # << >>
    <3>1. /\ Continue(w, writes)
          /\ now' = IF t.job.kind = "review" /\ Len(writes) = 2 THEN now + 1 ELSE now
      BY <1>7, <2>2 DEF Enter
    <3>2. CASE t.job.kind = "review"
      <4>1. \/ Marks(writes) /\ Len(writes) = 2 /\ now < MaxReviews
            \/ Proves(writes) /\ Len(writes) = 1
        BY <2>1, <2>2, <3>2, ReviewLegal DEF Writes
      <4> HIDE DEF writes
      <4>2. CASE Marks(writes) /\ Len(writes) = 2 /\ now < MaxReviews
        <5>1. now' = now + 1 /\ now' \in 0 .. MaxReviews
          BY <3>1, <3>2, <4>2, DraftRevisionAssumption
        <5> QED BY <2>1, <3>1, <4>2, <5>1, ContinueKeeps
      <4>3. CASE Proves(writes) /\ Len(writes) = 1
        <5>1. now' = now
          BY <3>1, <4>3
        <5>2. Legal(writes)
          BY <4>3 DEF Legal
        <5> QED BY <2>1, <3>1, <5>1, <5>2, ContinueLegal
      <4> QED BY <4>1, <4>2, <4>3
    <3>3. CASE t.job.kind # "review"
      <4>1. Legal(writes)
        BY <2>1, <2>2, <3>3, CommandLegal, CommitLegal, RecoverLegal, RepairLegal
           DEF Writes, Job, Checked
      <4>2. now' = now
        BY <3>1, <3>3
      <4> HIDE DEF writes
      <4> QED BY <2>1, <3>1, <4>1, <4>2, ContinueLegal
    <3> QED BY <3>2, <3>3
  <2>3. CASE writes = << >>
    <3>1. CASE Checked(t.job) /\ t.found = None
      <4> DEFINE u == [t EXCEPT !.pc = "refused"]
      <4>1. task' = [task EXCEPT ![w] = u] /\ UNCHANGED <<stored, lock, now>>
        BY <1>7, <2>1, <2>3, <3>1 DEF Enter, Go, Tasks
      <4>2. u = TaskOf(u) /\ u.pc = "refused" /\ Knows(u)
        BY <2>1, <3>1 DEF TaskOf, Knows, Tasks
      <4> HIDE DEF u
      <4>3. Tasks'
        BY <2>1, <4>1, <4>2, TaskChanges DEF stored
      <4> QED BY <1>1, <4>1, <4>3 DEF stored
    <3>2. CASE ~ (Checked(t.job) /\ t.found = None)
      <4>1. Finish(w) /\ UNCHANGED <<stored, lock, now>>
        BY <1>7, <2>3, <3>2 DEF Enter
      <4> QED BY <1>3, <2>1, <4>1
    <3> QED BY <3>1, <3>2
  <2> QED BY <2>2, <2>3
<1>8. ASSUME NEW w \in Worker, Repair(w)  PROVE IInv'
  <2> DEFINE t == task[w]
             writes == RepairWrites(t.job, t.seen, t.found)
  <2>1. /\ lock = None /\ t.pc = "repair" /\ t.job \in Job /\ t.seen \in Content
        /\ Checked(t.job)
        /\ t.job.kind = "model" => ToChange(t.seen) # {}
        /\ Child(t.job, t.seen) \in History
    BY <1>8 DEF Repair, At, Tasks, Knows
  <2>2. CASE writes # << >>
    <3>1. Continue(w, writes) /\ UNCHANGED now
      BY <1>8, <2>2 DEF Repair
    <3>2. t.job.kind # "review"
      BY <2>1 DEF Checked
    <3>3. Legal(writes)
      BY <2>1, <2>2, <3>2, RepairLegal
    <3> HIDE DEF writes
    <3> QED BY <2>1, <3>1, <3>3, ContinueLegal
  <2>3. CASE writes = << >>
    BY <1>3, <1>8, <2>1, <2>3 DEF Repair
  <2> QED BY <2>2, <2>3
<1>9. ASSUME NEW w \in Worker, Write(w)  PROVE IInv'
  <2>1. task[w].pc = "writing" /\ lock = w /\ Legal(task[w].plan)
    BY <1>9 DEF Write, At, Tasks
  <2> QED BY <1>9, <2>1, ContinueLegal DEF Write
<1>10. ASSUME NEW w \in Worker, NEW d \in History,
              Take(w, EvidenceWrites(d)) \/ Take(w, DecisionWrites(d))
       PROVE  IInv'
  <2>1. PICK writes \in {EvidenceWrites(d), DecisionWrites(d)} : Take(w, writes)
    BY <1>10
  <2>2. Legal(writes)
    BY <2>1, TakenLegal DEF Take
  <2> QED BY <2>1, <2>2, ContinueLegal DEF Take
<1>11. ASSUME NEW w \in Worker, Cut(w)  PROVE IInv'
  <2>1. /\ task' = [task EXCEPT ![w] = Idle] /\ lock' = None /\ UNCHANGED <<stored, now>>
        /\ lock = w
    BY <1>11 DEF Cut, Finish, At, Tasks
  <2>2. Idle = TaskOf(Idle) /\ Idle.pc = "idle"
    BY DEF Idle, TaskOf
  <2>3. /\ task' = [v \in Worker |-> TaskOf(task'[v])]
        /\ task'[w] = Idle /\ \A v \in Worker \ {w} : task'[v] = task[v]
    BY <2>1, <2>2 DEF Tasks, TaskOf
  <2>4. \A v \in Worker : Knows(task[v])' /\ task'[v].pc # "writing" /\ lock' # v
    BY <2>1, <2>2, <2>3, OneWriter, DraftRevisionAssumption
       DEF Tasks, Knows, History, Proven, stored
  <2>5. Tasks'
    BY <2>3, <2>4 DEF Tasks
  <2> QED BY <1>1, <2>1, <2>5 DEF stored
\* Only what is left out of the invariant changes.
<1>12. ASSUME UNCHANGED <<drafts, events, latest, decided, lock, task, now>>  PROVE IInv'
  <2>1. \A w \in Worker : task[w].pc = "writing" => Legal(task[w].plan)'
    BY <1>12, LegalStays DEF Tasks
  <2>2. Tasks'
    BY <1>12, <2>1 DEF Tasks, Knows, History, Proven
  <2> QED BY <1>1, <1>12, <2>2
<1>13. CASE EditRecipe
  BY <1>12, <1>13 DEF EditRecipe
<1>14. CASE UNCHANGED vars
  BY <1>12, <1>14 DEF vars, stored
<1> QED
  BY <1>2, <1>5, <1>6, <1>7, <1>8, <1>9, <1>10, <1>11, <1>13, <1>14 DEF Next

-----------------------------------------------------------------------------
(* What was cut short can be finished *)

\* The draft that a draft was made from, and the step.
LEMMA FrontLast ==
  ASSUME NEW p \in Drafts, NEW s \in AnyStep
  PROVE  Front(Append(p, s)) = p /\ Last(Append(p, s)) = s
<1> DEFINE d == Append(p, s)
<1>1. /\ d \in Drafts /\ Len(d) = Len(p) + 1 /\ Len(p) \in Nat
      /\ d[Len(p) + 1] = s /\ \A i \in 1 .. Len(p) : d[i] = p[i]
  BY DEF Drafts
<1> HIDE DEF d
<1>2. Len(d) - 1 = Len(p)
  BY <1>1
<1>3. SubSeq(d, 1, Len(p)) = p
  <2>1. /\ SubSeq(d, 1, Len(p)) \in Drafts /\ Len(SubSeq(d, 1, Len(p))) = Len(p)
        /\ \A i \in 1 .. Len(p) : SubSeq(d, 1, Len(p))[i] = p[i]
    BY <1>1 DEF Drafts
  <2> QED BY <2>1, SeqEqual DEF Drafts
<1> QED BY <1>1, <1>2, <1>3 DEF Front, Last, d

\* What a settled draft and the ones before it show is proven.
LEMMA OriginsProven ==
  ASSUME Line, Reviews, NEW d \in History
  PROVE  /\ \A e \in Origins(d) : e \in History /\ (e # d => Proven(e, drafts[e]))
         /\ Proven(d, drafts[d]) => ReviewsProven(d, drafts[d], << >>)
<1>1. ASSUME NEW e \in Origins(d)
      PROVE  e \in History /\ (e # d => Proven(e, drafts[e]))
  <2>1. e \in History /\ IsPrefix(e, d)
    BY OriginsAre DEF Line, Reviews, History
  <2>2. e # d => Settled(e)
    BY <2>1 DEF Settled, IsStrictPrefix
  <2> QED BY <2>1, <2>2 DEF Reviews
<1> QED BY <1>1 DEF ReviewsProven, Proven

\* Of a case with a draft that is not linked: where it came from, and that nothing
\* else is unfinished.
LEMMA TheUnfinished ==
  ASSUME Line, Reviews, Remains, NEW d \in Unfinished
  PROVE  \E p \in History, s \in Step :
           /\ d \in History /\ d = Append(p, s) /\ d # p
           /\ Front(d) = p /\ Last(d) = s
           /\ p \in Drafts /\ s \in AnyStep
           /\ SpecKept(p) /\ p \notin decided
           /\ drafts[p].status \in {"pending", "superseded"}
           /\ s.kind = "model" => s.by = ToChange(drafts[p])
           /\ drafts[d] = Fresh
           /\ ReviewsProven(p, drafts[p], << >>)
           /\ LineageLinked(p, {d}) /\ NoOther(p, d)
           /\ \A e \in Origins(p) : Linked(e)
<1>1. d \in History /\ ~ Linked(d) /\ Unlinked(d)
  BY DEF Unfinished, Remains
<1>2. PICK p \in History, s \in Step :
        /\ d = Append(p, s) /\ Linked(p) /\ SpecKept(p) /\ p \notin decided
        /\ drafts[p].status \in {"pending", "superseded"}
        /\ s.kind = "model" => s.by = ToChange(drafts[p])
  BY <1>1 DEF Unlinked
<1>3. /\ p \in Drafts /\ d \in Drafts /\ s \in AnyStep
      /\ d # p /\ IsPrefix(p, d)
      /\ \A e \in Drafts : IsPrefix(e, d) => IsPrefix(e, p) \/ e = d
  BY <1>1, <1>2, StepIs, PrefixAppend DEF Line, History, Drafts
<1>4. Front(d) = p /\ Last(d) = s
  BY <1>2, <1>3, FrontLast
<1>5. \A e \in History : e # d => Linked(e)
  <2> SUFFICES ASSUME NEW e \in History, ~ Linked(e)  PROVE e = d
    OBVIOUS
  <2>1. IsPrefix(d, e) /\ IsPrefix(e, d)
    BY <1>1 DEF Remains, Unlinked
  <2> QED BY <1>1, <2>1, PrefixOrder DEF Line, History, Drafts
<1>6. \A e \in Lineage(p) : e \in {p, d}
  <2> TAKE e \in Lineage(p)
  <2>1. e \in History /\ e \in Drafts /\ IsPrefix(p, e) /\ IsPrefix(e, d)
    BY <1>1 DEF Lineage, Unlinked, Line, History
  <2>2. CASE IsPrefix(e, p)
    BY <1>3, <2>1, <2>2, PrefixOrder DEF Drafts
  <2> QED BY <1>3, <2>1, <2>2
<1>7. LineageLinked(p, {d}) /\ NoOther(p, d)
  BY <1>5, <1>6 DEF LineageLinked, NoOther, Stored, Lineage
<1>8. Proven(p, drafts[p])
  BY <1>1, <1>3 DEF Reviews, Settled, IsStrictPrefix
<1>9. ReviewsProven(p, drafts[p], << >>)
  BY <1>8, OriginsProven
<1>10. \A e \in Origins(p) : Linked(e)
  <2> TAKE e \in Origins(p)
  <2>1. e \in History /\ IsPrefix(e, p)
    BY <1>3, OriginsAre, OriginsProven
  <2>2. e # d
    BY <1>3, <2>1, PrefixOrder DEF Drafts
  <2> QED BY <1>5, <2>1, <2>2
<1>11. drafts[d] = Fresh
  BY <1>1 DEF Unlinked
<1> QED BY <1>1, <1>2, <1>3, <1>4, <1>7, <1>9, <1>10, <1>11

\* The request that made a draft that is not linked is accepted again.
LEMMA UnfinishedRedoable ==
  ASSUME Line, Reviews, Remains, NEW d \in Unfinished
  PROVE  \/ Last(d).kind = "model" /\ Open(Front(d))
         \/ Last(d).kind = "prepare" /\ Front(d) \notin fitting
         \/ Accepted(Origin(d))
<1>1. PICK p \in History, s \in Step :
        /\ d \in History /\ d = Append(p, s) /\ d # p
        /\ Front(d) = p /\ Last(d) = s
        /\ p \in Drafts /\ s \in AnyStep
        /\ SpecKept(p) /\ p \notin decided
        /\ drafts[p].status \in {"pending", "superseded"}
        /\ s.kind = "model" => s.by = ToChange(drafts[p])
        /\ drafts[d] = Fresh
        /\ ReviewsProven(p, drafts[p], << >>)
        /\ LineageLinked(p, {d}) /\ NoOther(p, d)
        /\ \A e \in Origins(p) : Linked(e)
  BY TheUnfinished
<1> DEFINE job == Origin(d)
           seen == drafts[p]
<1>2. /\ seen \in Content /\ Unchanged(p, seen)
      /\ Stored(p) /\ Stored(d) /\ Open(d) /\ Read(d) = Fresh /\ Fresh # None
  BY <1>1, Contents, NoneAssumption DEF Line, Unchanged, Read, Stored, Open, Fresh
<1>3. /\ seen.status = "pending" => Replaceable(p, seen)
      /\ seen.status = "superseded" => seen = Superseded(seen)
  BY <1>1, <1>2 DEF Replaceable, Superseded, Content
<1>4. \A e \in Lineage(p) : e # d => Len(e) < Len(d)
  <2>1. Len(p) < Len(d)
    BY <1>1 DEF Drafts
  <2> QED BY <1>1, <2>1 DEF NoOther
<1>5. CASE s.kind = "command"
  <2>1. PICK k \in Command : s.by = {k}
    BY <1>1, <1>5 DEF Step
  <2>2. (CHOOSE c \in Command : c \in s.by) = k
    BY <2>1
  <2>3. job = [kind |-> "command", draft |-> p, command |-> k]
    BY <1>1, <1>5, <2>2 DEF Origin
  <2>4. s = [kind |-> "command", by |-> {k}]
    BY <1>1, <1>5, <2>1 DEF Step
  <2> HIDE DEF job, seen
  <2>5. job.kind = "command" /\ job.draft = p /\ job.command = k
    BY <2>3
  <2>6. Child(job, seen) = d
    BY <1>1, <2>4, <2>5 DEF Child, StepOf
  <2>7. CommandWrites(job, seen) # << >>
    BY <1>1, <1>2, <1>3, <2>5, <2>6, HeadTail DEF CommandWrites, If, Supersede, seen
  <2>8. Admitted(job) /\ ~ Checked(job)
    BY <1>1, <1>2, <2>5 DEF Admitted, Checked
  <2>9. Accepted(job)
    BY <2>5, <2>7, <2>8 DEF Accepted, Writes, seen
  <2> QED BY <2>9 DEF job
<1>6. CASE s.kind = "prepare"
  <2>1. job = [kind |-> "prepare", draft |-> p]
    BY <1>1, <1>6 DEF Origin
  <2>2. s = [kind |-> "prepare", by |-> {}]
    BY <1>1, <1>6 DEF Step
  <2>3. SUFFICES ASSUME p \in fitting  PROVE Accepted(job)
    BY <1>1, <1>6
  <2> HIDE DEF job, seen
  <2>4. job.kind = "prepare" /\ job.draft = p
    BY <2>1
  <2>5. Child(job, seen) = d
    BY <1>1, <2>2, <2>4 DEF Child, StepOf
  <2>6. \A e \in Lineage(p) : Len(e) > Len(d) => e = d
    BY <1>1, <1>4 DEF Lineage, Line, Drafts
  <2>7. RecoverWrites(job, seen) # << >>
    BY <1>1, <1>2, <1>3, <2>4, <2>5, <2>6, HeadTail DEF RecoverWrites, If, Supersede, seen
  <2>8. Admitted(job) /\ Checked(job)
    BY <1>1, <1>2, <2>4 DEF Admitted, Checked
  <2>9. Ready(job, seen, d)
    BY <1>2, <2>3, <2>4 DEF Ready
  <2>10. Accepted(job)
    BY <1>2, <2>4, <2>5, <2>7, <2>8, <2>9 DEF Accepted, Writes, seen
  <2> QED BY <2>10
<1>7. CASE s.kind = "model"
  <2>1. job = [kind |-> "model", draft |-> p]
    BY <1>1, <1>7 DEF Origin
  <2>2. s = [kind |-> "model", by |-> ToChange(seen)] /\ ToChange(seen) # {}
    BY <1>1, <1>7 DEF Step
  <2>3. SUFFICES ASSUME ~ Open(p)  PROVE Accepted(job)
    BY <1>1, <1>7
  <2>4. seen.status = "superseded"
    BY <1>1, <1>2, <2>3 DEF Open
  <2> HIDE DEF job, seen
  <2>5. job.kind = "model" /\ job.draft = p
    BY <2>1
  <2>6. Child(job, seen) = d
    BY <1>1, <2>2, <2>5 DEF Child, StepOf
  <2>7. RepairWrites(job, seen, Fresh) # << >>
    BY <1>1, <1>3, <1>4, <2>4, <2>5, <2>6, HeadTail DEF RepairWrites, If, seen
  <2>8. Admitted(job) /\ Checked(job)
    BY <1>1, <1>2, <2>2, <2>5 DEF Admitted, Checked, seen
  <2>9. Ready(job, seen, d)
    BY <1>2, <2>5 DEF Ready
  <2>10. Accepted(job)
    BY <1>2, <2>5, <2>6, <2>7, <2>8, <2>9 DEF Accepted, Writes, seen
  <2> QED BY <2>10
<1> QED BY <1>1, <1>5, <1>6, <1>7 DEF Step

\* A decision that was not projected is made again.
LEMMA DecisionRedoable ==
  ASSUME Line, Reviews, Remains, NEW d \in decided
  PROVE  DecisionWrites(d) # << >>
<1>1. d \in History /\ Lineage(d) = {d} /\ Linked(d) /\ Proven(d, drafts[d])
  BY DEF Remains
<1>2. latest = d
  <2>1. IsPrefix(d, latest) /\ latest \in History
    BY <1>1 DEF Remains
  <2>2. latest \in Lineage(d)
    BY <2>1 DEF Lineage
  <2> QED BY <1>1, <2>2
<1>3. ASSUME NEW f \in History  PROVE Linked(f)
  <2>1. CASE f = d
    BY <1>1, <2>1
  <2>2. CASE f # d
    <3>1. ~ IsPrefix(d, f)
      BY <1>1, <2>2 DEF Lineage
    <3> QED BY <1>1, <3>1 DEF Remains, Unlinked
  <2> QED BY <2>1, <2>2
<1>4. Current(d)
  BY <1>1, <1>2, <1>3 DEF Current, Lineage
<1>5. ReviewsProven(d, drafts[d], << >>)
  BY <1>1, OriginsProven
<1> QED BY <1>4, <1>5, HeadTail DEF DecisionWrites, If

\* A review whose event is missing is accepted again.
LEMMA ReviewRedoable ==
  ASSUME Line, Reviews, Remains, NEW d \in History, NEW c \in Card, Open(d),
         Missing(d, drafts[d], c)
  PROVE  Accepted([kind |-> "review", draft |-> d, card |-> c,
                   verdict |-> drafts[d].cards[c].verdict])
<1> DEFINE mark == drafts[d].cards[c]
           job == [kind |-> "review", draft |-> d, card |-> c, verdict |-> mark.verdict]
<1>1. ~ Proven(d, drafts[d])
  BY DEF Missing, Proven
<1>2. d \notin decided /\ ~ Settled(d)
  BY <1>1 DEF Remains, Reviews
<1>3. \A e \in Lineage(d) : e = d
  BY <1>2, PrefixOrder DEF Settled, Lineage, IsStrictPrefix
<1>4. Linked(d)
  <2>1. ~ Linked(d) => drafts[d] = Fresh
    BY DEF Remains, Unlinked
  <2> QED BY <2>1 DEF Missing, Fresh, Unseen
<1>5. LineageLinked(d, {}) /\ Stored(d) /\ Unchanged(d, drafts[d])
  BY <1>3, <1>4 DEF LineageLinked, Stored, Unchanged, Read
<1>6. ReviewsProven(d, drafts[d], <<d, c>>)
  <2> SUFFICES ASSUME NEW e \in Origins(d), NEW k \in Card,
                      drafts[e].cards[k].at # 0, <<e, k>> # <<d, c>>
               PROVE  Proof(e, k, drafts[e].cards[k]) \in events
    BY DEF ReviewsProven
  <2>1. CASE e # d
    BY <2>1, OriginsProven DEF Proven
  <2>2. CASE e = d
    <3>1. OneMissing(d, drafts[d]) /\ k # c
      BY <2>2 DEF Remains
    <3> QED BY <2>2, <3>1 DEF OneMissing, Missing
  <2> QED BY <2>1, <2>2
<1>7. mark.at # 0
  BY DEF Missing
<1>8. /\ job.kind = "review" /\ job.draft = d /\ job.card = c
      /\ job.verdict = mark.verdict
  OBVIOUS
<1> HIDE DEF job
<1>9. ReviewWrites(job, drafts[d]) # << >>
  BY <1>2, <1>5, <1>6, <1>7, <1>8, HeadTail DEF ReviewWrites, If
<1>10. Admitted(job) /\ ~ Checked(job)
  BY <1>5, <1>8 DEF Admitted, Checked
<1>11. Accepted(job)
  BY <1>8, <1>9, <1>10 DEF Accepted, Writes
<1> QED BY <1>11 DEF job

\* The invariant of the drafts and of what the requests have planned.
THEOREM DraftsInLine == Spec => []IInv
BY InitHolds, StepKeeps, PTL DEF Spec

\* The drafts of a case form one history, and a draft whose successor is linked is
\* superseded, however requests interleave and wherever they are cut short.
THEOREM HistoryIsOne == Spec => []OneHistory
<1>1. IInv => OneHistory
  BY DEF IInv, Line
<1> QED BY <1>1, DraftsInLine, PTL

\* No review is lost: what the timeline says of a card is on the card unless it was
\* reviewed again, and a draft that was superseded or decided shows nothing that the
\* timeline does not prove.
THEOREM ReviewsAreKept == Spec => []ReviewsKept
<1>1. ASSUME IInv  PROVE ReviewsKept
  <2>1. \A e \in events : e.kind = "review" => drafts[e.draft].cards[e.card].at >= e.mark.at
    BY <1>1 DEF IInv, Reviews
  <2>2. ASSUME NEW d \in History, ~ Open(d)  PROVE ReviewsProven(d, drafts[d], << >>)
    <3>1. \A e \in Origins(d) : e \in History /\ Settled(e)
      BY <1>1, <2>2, OriginsAre DEF IInv, Line, Reviews, Settled, IsStrictPrefix, History
    <3>2. \A e \in Origins(d) : Proven(e, drafts[e])
      BY <1>1, <3>1 DEF IInv, Reviews
    <3> QED BY <3>2 DEF ReviewsProven, Proven
  <2> QED BY <2>1, <2>2 DEF ReviewsKept
<1> QED BY <1>1, DraftsInLine, PTL

\* A request that was cut short is finished by sending it again: a review whose event
\* is missing, a decision that was not projected, a command, a preparation whose recipe
\* stays, a revision by the model that had superseded the old draft.
THEOREM CutShortIsRedoable == Spec => []Redoable
<1>1. ASSUME IInv  PROVE Redoable
  <2>1. Line /\ Reviews /\ Remains
    BY <1>1 DEF IInv
  <2>2. \A d \in Unfinished :
          \/ Last(d).kind = "model" /\ Open(Front(d))
          \/ Last(d).kind = "prepare" /\ Front(d) \notin fitting
          \/ Accepted(Origin(d))
    BY <2>1, UnfinishedRedoable
  <2>3. \A d \in decided : Open(d) => DecisionWrites(d) # << >>
    BY <2>1, DecisionRedoable
  <2>4. \A d \in History, c \in Card :
          LET mark == drafts[d].cards[c]
          IN  Open(d) /\ mark.at # 0 /\ Proof(d, c, mark) \notin events =>
                Accepted([kind |-> "review", draft |-> d, card |-> c, verdict |-> mark.verdict])
    BY <2>1, ReviewRedoable DEF Missing
  <2> QED BY <2>2, <2>3, <2>4 DEF Redoable
<1> QED BY <1>1, DraftsInLine, PTL

===============================================================================
