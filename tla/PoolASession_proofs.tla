------------------------- MODULE PoolASession_proofs -------------------------
(***************************************************************************)
(* Proofs about PoolASession, for any queue, number of retries, sessions   *)
(* and generations of work. Nothing locks pool A's transport, and two      *)
(* tasks close it; what saves the day is the order in which stratum_task   *)
(* does things: an endpoint is only chosen while there is no transport,    *)
(* and a session counts as up from its first line to its last step.        *)
(***************************************************************************)
EXTENDS PoolASession, TLAPS

Cleans == {"clean_flag", "clean_queue", "clean_work"}
CleaningFor(next) == pc["stratum"] \in Cleans /\ ret = next

\* Where stratum_task goes on is known wherever it can be asked for it.
ReturnOK ==
    /\ pc["stratum"] = "close" => ret = "down"
    /\ pc["stratum"] \in {"destroy", "null"} => ret \in {"top", "down"}
    /\ pc["stratum"] \in Cleans => ret \in {"hello", "notify", "down"}

\* The transport is none while an endpoint is chosen, one without a session while
\* it connects, and else that of the latest session, made with the present endpoint.
NoLink == pc["stratum"] \in {"top", "dial", "down"} \/ CleaningFor("down")
NewLink == \/ pc["stratum"] = "connecting"
           \/ pc["stratum"] \in {"destroy", "null"} /\ ret = "top"
LinkOK ==
    /\ NoLink => transport = NoHandle
    /\ NewLink => transport \in {NoHandle, Len(session) + 1}
    /\ ~NewLink => transport \in {NoHandle, Len(session)}
    /\ transport # NoHandle /\ transport = Len(session)
           => session[transport] = is_using_fallback

\* A line is being handled: the session counts as up, and is one that was made.
Handling == pc["stratum"] \in {"clean_test", "notify", "room", "enqueue"}
            \/ CleaningFor("notify")
LoopOK ==
    /\ Handling => isconnected
    /\ Handling /\ stale = None => rx \in 1 .. Len(session)
    /\ pc["stratum"] = "clean_test" => stale = None
    /\ pc["stratum"] = "read" /\ ~isconnected => rx \in {NoHandle, Len(session)}
    /\ CleaningFor("hello") \/ CleaningFor("notify") \/ pc["stratum"] = "clean_test"
           => gen > 0
    /\ Len(session) > 0 => gen > 0

\* Work is of a session that was made, and not of the latest while none of its
\* lines has come.
Unheard == \/ pc["stratum"] = "hello" \/ CleaningFor("hello")
           \/ pc["stratum"] = "read" /\ ~isconnected
Heard(j) == j.ses \in 1 .. Len(session) /\ (Unheard => j.ses # Len(session))
NoneOrHeard(j) == j = None \/ Heard(j)
WorkOK ==
    /\ \A i \in 1 .. Len(stratum_queue) : Heard(stratum_queue[i])
    /\ \A i \in 1 .. Len(asic_queue) : NoneOrHeard(asic_queue[i])
    /\ NoneOrHeard(held) /\ NoneOrHeard(builder.job)
    /\ NoneOrHeard(sending) /\ NoneOrHeard(slot) /\ NoneOrHeard(stale)

\* The worker chosen for a share of the session whose transport is there, or was
\* when the write began, is that session's.
ShareOK ==
    /\ pc["result"] \in {"user", "test", "submit", "write"}
           => share.ses \in 1 .. Len(session)
    /\ pc["result"] \in {"test", "submit"} /\ share.ses = transport
           => share.user = session[share.ses]
    /\ pc["result"] = "write" /\ share.ses = share.handle
           => share.user = session[share.ses]

AInv == TypeOK /\ ReturnOK /\ LinkOK /\ LoopOK /\ WorkOK /\ ShareOK

-----------------------------------------------------------------------------
(* What steps leave alone. *)

LEMMA Constants ==
  /\ QueueSize \in Nat \ {0} /\ MAX_RETRY_ATTEMPTS \in Nat \ {0}
  /\ MaxSessions \in Nat /\ MaxGen \in Nat
  /\ NoHandle = 0 /\ None \in Work /\ None.ses = NoHandle
  BY SizesAssumption, RetryAssumption, BoundsAssumption DEF NoHandle, None, Work, Handles

\* A step of one task leaves the other where it was.
LEMMA Going ==
  ASSUME TypeOK, NEW there, Goto("stratum", there), there \in StratumPlaces
  PROVE  /\ pc'["stratum"] = there /\ pc'["result"] = pc["result"]
         /\ pc' \in [Tasks -> StratumPlaces \cup ResultPlaces]
         /\ pc'["stratum"] \in StratumPlaces /\ pc'["result"] \in ResultPlaces
  BY DEF TypeOK, Goto, Tasks

LEMMA ResultGoing ==
  ASSUME TypeOK, NEW there, Goto("result", there), there \in ResultPlaces
  PROVE  /\ pc'["result"] = there /\ pc'["stratum"] = pc["stratum"]
         /\ pc' \in [Tasks -> StratumPlaces \cup ResultPlaces]
         /\ pc'["stratum"] \in StratumPlaces /\ pc'["result"] \in ResultPlaces
  BY DEF TypeOK, Goto, Tasks

\* Work that does not change stays of a session that was heard of.
LEMMA WorkStays ==
  ASSUME WorkOK, UNCHANGED <<session, stratum_queue, stale, builder, held, chipVars>>,
         Unheard' => Unheard
  PROVE  WorkOK'
  BY DEF WorkOK, NoneOrHeard, Heard, chipVars

\* A share keeps its worker whatever becomes of the transport, unless that is
\* given to another session already made.
LEMMA ShareStays ==
  ASSUME ShareOK, TypeOK, UNCHANGED <<share, session>>, pc'["result"] = pc["result"],
         transport' \in {transport, NoHandle, Len(session) + 1}
  PROVE  ShareOK'
  BY Constants DEF ShareOK, TypeOK

\* The two parts of the invariant that only speak of stratum_task and its session.
LEMMA LinkStays ==
  ASSUME LinkOK, LoopOK, ReturnOK, TypeOK,
         UNCHANGED <<ret, rx, isconnected, session, is_using_fallback, stale, gen>>,
         pc'["stratum"] = pc["stratum"],
         transport' \in {transport, NoHandle}
  PROVE  LinkOK' /\ LoopOK' /\ ReturnOK'
<1>1. LinkOK'
  BY Constants DEF LinkOK, NoLink, NewLink, CleaningFor, TypeOK
<1>2. LoopOK' /\ ReturnOK'
  BY DEF LoopOK, ReturnOK, Handling, CleaningFor
<1> QED  BY <1>1, <1>2

-----------------------------------------------------------------------------
LEMMA InitHolds == Init => AInv
<1> SUFFICES ASSUME Init PROVE AInv
  OBVIOUS
<1>1. pc["stratum"] = "top" /\ pc["result"] = "idle"
      /\ pc \in [Tasks -> StratumPlaces \cup ResultPlaces]
  BY DEF Init, Tasks, StratumPlaces, ResultPlaces
<1>2. reachable \in SUBSET Endpoints /\ reachable \in ReachableChoices
  BY BoundsAssumption DEF Init
<1>3. TypeOK
  <2>1. builder \in [at : {"wait", "check", "build", "put", "purge"}, job : Work]
    BY Constants DEF Init, BuilderAt
  <2>2. share \in [ses : Handles \cup {NoHandle}, user : Endpoints,
                   handle : Handles \cup {NoHandle}]
    BY DEF Init, NoShare, Endpoints
  <2>3. pc["stratum"] \in StratumPlaces /\ pc["result"] \in ResultPlaces
    BY <1>1 DEF StratumPlaces, ResultPlaces
  <2>4. session \in Seq(Endpoints) /\ Len(session) <= MaxSessions /\ is_using_fallback \in Endpoints
    BY Constants DEF Init, Endpoints
  <2>5. held \in Work /\ sending \in Work /\ slot \in Work /\ stale \in Work
        /\ stratum_queue \in Seq(Work) /\ asic_queue \in Seq(Work)
    BY Constants DEF Init
  <2>6. gen \in 0 .. MaxGen /\ cleaned \in 0 .. MaxGen
        /\ retry_attempts \in 0 .. MAX_RETRY_ATTEMPTS
    BY Constants DEF Init
  <2> QED  BY <1>1, <1>2, <2>1, <2>2, <2>3, <2>4, <2>5, <2>6 DEF Init, TypeOK
<1>4. ReturnOK /\ LinkOK /\ LoopOK /\ ShareOK
  BY <1>1 DEF Init, ReturnOK, LinkOK, NoLink, NewLink, LoopOK, Handling, CleaningFor, ShareOK,
     Cleans, NoHandle
<1>5. WorkOK
  BY DEF Init, WorkOK, NoneOrHeard, BuilderAt
<1> QED  BY <1>3, <1>4, <1>5 DEF AInv

-----------------------------------------------------------------------------
(* stratum_task: the dial. *)

LEMMA ChooseKeeps ==
  ASSUME AInv, Choose
  PROVE  AInv'
<1>1. /\ pc["stratum"] = "top" /\ Goto("stratum", "dial") /\ transport = NoHandle
      /\ UNCHANGED <<ret, linkVars, session, workVars, share, reachable>>
  BY DEF Choose, At, AInv, LinkOK, NoLink
<1>2. /\ pc'["stratum"] = "dial" /\ pc'["result"] = pc["result"]
      /\ pc' \in [Tasks -> StratumPlaces \cup ResultPlaces]
      /\ pc'["stratum"] \in StratumPlaces /\ pc'["result"] \in ResultPlaces
  BY <1>1, Going DEF AInv, StratumPlaces
<1>3. retry_attempts' \in 0 .. MAX_RETRY_ATTEMPTS /\ is_using_fallback' \in Endpoints
  BY Constants DEF Choose, AInv, TypeOK, Flipped, Endpoints
<1>4. TypeOK'
  BY <1>1, <1>2, <1>3 DEF AInv, TypeOK, linkVars, workVars, notifyVars, buildVars, chipVars
<1>5. ReturnOK' /\ LinkOK' /\ LoopOK'
  BY <1>1, <1>2, Constants DEF AInv, ReturnOK, LinkOK, NoLink, NewLink, LoopOK, Handling,
     CleaningFor, Cleans, linkVars, workVars
<1>6. WorkOK' /\ ShareOK'
  BY <1>1, <1>2, WorkStays, ShareStays DEF AInv, Unheard, CleaningFor, Cleans, linkVars,
     workVars, notifyVars, buildVars
<1> QED  BY <1>4, <1>5, <1>6 DEF AInv

LEMMA CountedType == TypeOK => Counted \in 0 .. MAX_RETRY_ATTEMPTS
  BY Constants DEF TypeOK, Counted

LEMMA ResolveFailsKeeps ==
  ASSUME AInv, ResolveFails
  PROVE  AInv'
<1>1. /\ pc["stratum"] = "dial" /\ Goto("stratum", "top") /\ transport = NoHandle
      /\ retry_attempts' = Counted
      /\ UNCHANGED <<ret, linkVars, is_using_fallback, session, workVars, share, reachable>>
  BY DEF ResolveFails, At, AInv, LinkOK, NoLink
<1>2. /\ pc'["stratum"] = "top" /\ pc'["result"] = pc["result"]
      /\ pc' \in [Tasks -> StratumPlaces \cup ResultPlaces]
      /\ pc'["stratum"] \in StratumPlaces /\ pc'["result"] \in ResultPlaces
  BY <1>1, Going DEF AInv, StratumPlaces
<1>3. TypeOK'
  BY <1>1, <1>2, CountedType DEF AInv, TypeOK, linkVars, workVars, notifyVars, buildVars, chipVars
<1>4. ReturnOK' /\ LinkOK' /\ LoopOK'
  BY <1>1, <1>2, Constants DEF AInv, ReturnOK, LinkOK, NoLink, NewLink, LoopOK, Handling,
     CleaningFor, Cleans, linkVars, workVars
<1>5. WorkOK' /\ ShareOK'
  BY <1>1, <1>2, WorkStays, ShareStays DEF AInv, Unheard, CleaningFor, Cleans, linkVars,
     workVars, notifyVars, buildVars
<1> QED  BY <1>3, <1>4, <1>5 DEF AInv

LEMMA DialKeeps ==
  ASSUME AInv, Dial
  PROVE  AInv'
<1>1. /\ pc["stratum"] = "dial" /\ Goto("stratum", "connecting")
      /\ Len(session) < MaxSessions
      /\ transport' = Len(session) + 1 /\ alive' = alive \cup {transport'}
      /\ UNCHANGED <<ret, rx, isconnected, dialVars, workVars, share, reachable>>
  BY DEF Dial, At
<1>2. /\ pc'["stratum"] = "connecting" /\ pc'["result"] = pc["result"]
      /\ pc' \in [Tasks -> StratumPlaces \cup ResultPlaces]
      /\ pc'["stratum"] \in StratumPlaces /\ pc'["result"] \in ResultPlaces
  BY <1>1, Going DEF AInv, StratumPlaces
<1>3. transport' \in Handles
  BY <1>1, Constants DEF AInv, TypeOK, Handles
<1>4. TypeOK'
  BY <1>1, <1>2, <1>3 DEF AInv, TypeOK, dialVars, workVars, notifyVars, buildVars, chipVars
<1>5. ReturnOK' /\ LinkOK' /\ LoopOK'
  BY <1>1, <1>2, Constants DEF AInv, TypeOK, ReturnOK, LinkOK, NoLink, NewLink, LoopOK, Handling,
     CleaningFor, Cleans, dialVars, workVars
<1>6. WorkOK' /\ ShareOK'
  BY <1>1, <1>2, WorkStays, ShareStays DEF AInv, Unheard, CleaningFor, Cleans, dialVars,
     workVars, notifyVars, buildVars
<1> QED  BY <1>4, <1>5, <1>6 DEF AInv

LEMMA ConnectFailsKeeps ==
  ASSUME AInv, ConnectFails
  PROVE  AInv'
<1>1. /\ pc["stratum"] = "connecting" /\ Goto("stratum", "destroy") /\ ret' = "top"
      /\ retry_attempts' = Counted
      /\ UNCHANGED <<linkVars, is_using_fallback, session, workVars, share, reachable>>
  BY DEF ConnectFails, At
<1>2. /\ pc'["stratum"] = "destroy" /\ pc'["result"] = pc["result"]
      /\ pc' \in [Tasks -> StratumPlaces \cup ResultPlaces]
      /\ pc'["stratum"] \in StratumPlaces /\ pc'["result"] \in ResultPlaces
  BY <1>1, Going DEF AInv, StratumPlaces, Closes
<1>3. TypeOK'
  BY <1>1, <1>2, CountedType DEF AInv, TypeOK, linkVars, workVars, notifyVars, buildVars, chipVars
<1>4. ReturnOK' /\ LinkOK' /\ LoopOK'
  BY <1>1, <1>2, Constants DEF AInv, ReturnOK, LinkOK, NoLink, NewLink, LoopOK, Handling,
     CleaningFor, Cleans, linkVars, workVars
<1>5. WorkOK' /\ ShareOK'
  BY <1>1, <1>2, WorkStays, ShareStays DEF AInv, Unheard, CleaningFor, Cleans, linkVars,
     workVars, notifyVars, buildVars
<1> QED  BY <1>3, <1>4, <1>5 DEF AInv

\* The transport is the one that was published before: it becomes the new session's.
LEMMA ConnectedKeeps ==
  ASSUME AInv, Connected
  PROVE  AInv'
<1>1. /\ pc["stratum"] = "connecting" /\ Goto("stratum", "clean_flag") /\ ret' = "hello"
      /\ transport \in alive /\ gen < MaxGen /\ gen' = gen + 1
      /\ session' = Append(session, is_using_fallback)
      /\ UNCHANGED <<linkVars, retry_attempts, is_using_fallback, notifyVars, buildVars,
                     chipVars, cleaned, share, reachable>>
  BY DEF Connected, At
<1>2. /\ pc'["stratum"] = "clean_flag" /\ pc'["result"] = pc["result"]
      /\ pc' \in [Tasks -> StratumPlaces \cup ResultPlaces]
      /\ pc'["stratum"] \in StratumPlaces /\ pc'["result"] \in ResultPlaces
  BY <1>1, Going DEF AInv, StratumPlaces, Closes
<1>3. transport = Len(session) + 1 /\ transport \in Handles
  BY <1>1, Constants DEF AInv, TypeOK, LinkOK, NewLink, Handles
<1>4. /\ session' \in Seq(Endpoints) /\ Len(session') = Len(session) + 1
      /\ Len(session') <= MaxSessions
      /\ session'[transport] = is_using_fallback
      /\ \A s \in 1 .. Len(session) : session'[s] = session[s]
  BY <1>1, <1>3, Constants DEF AInv, TypeOK, Handles
<1>5. TypeOK'
  BY <1>1, <1>2, <1>4, Constants DEF AInv, TypeOK, linkVars, notifyVars, buildVars, chipVars
<1>6. ReturnOK' /\ LinkOK'
  BY <1>1, <1>2, <1>3, <1>4, Constants DEF AInv, ReturnOK, LinkOK, NoLink, NewLink, CleaningFor,
     Cleans, linkVars
<1>7. LoopOK'
  BY <1>1, <1>2, <1>4, Constants DEF AInv, TypeOK, LoopOK, Handling, CleaningFor, Cleans, linkVars
<1>8. ASSUME NEW j, Heard(j)
      PROVE  j.ses \in 1 .. Len(session') /\ j.ses # Len(session')
  BY <1>4, <1>8 DEF Heard, AInv, TypeOK
<1>9. WorkOK'
  BY <1>1, <1>8 DEF AInv, WorkOK, NoneOrHeard, Heard, notifyVars, buildVars, chipVars
<1>10. ShareOK'
  BY <1>1, <1>2, <1>3, <1>4 DEF AInv, TypeOK, ShareOK, linkVars
<1> QED  BY <1>5, <1>6, <1>7, <1>9, <1>10 DEF AInv

LEMMA HelloKeeps ==
  ASSUME AInv, Hello
  PROVE  AInv'
<1>1. /\ pc["stratum"] = "hello" /\ Goto("stratum", "read")
      /\ abandon_work' = FALSE /\ rx' = transport
      /\ UNCHANGED <<ret, transport, alive, isconnected, dialVars, stratum_queue, stale,
                     buildVars, chipVars, gen, cleaned, share, reachable>>
  BY DEF Hello, At
<1>2. /\ pc'["stratum"] = "read" /\ pc'["result"] = pc["result"]
      /\ pc' \in [Tasks -> StratumPlaces \cup ResultPlaces]
      /\ pc'["stratum"] \in StratumPlaces /\ pc'["result"] \in ResultPlaces
  BY <1>1, Going DEF AInv, StratumPlaces
<1>3. TypeOK'
  BY <1>1, <1>2 DEF AInv, TypeOK, dialVars, buildVars, chipVars
<1>4. ReturnOK' /\ LinkOK' /\ LoopOK'
  BY <1>1, <1>2, Constants DEF AInv, ReturnOK, LinkOK, NoLink, NewLink, LoopOK, Handling,
     CleaningFor, Cleans, dialVars
<1>5. WorkOK' /\ ShareOK'
  BY <1>1, <1>2, WorkStays, ShareStays DEF AInv, Unheard, dialVars, buildVars
<1> QED  BY <1>3, <1>4, <1>5 DEF AInv

-----------------------------------------------------------------------------
(* stratum_task: reading. *)

\* What every line leaves alone.
LEMMA LineKeeps ==
  ASSUME AInv, LineComes
  PROVE  /\ pc["stratum"] = "read" /\ isconnected' = TRUE
         /\ UNCHANGED <<transport, alive, is_using_fallback, session, abandon_work,
                        stratum_queue, buildVars, chipVars, cleaned, share, reachable>>
  BY DEF LineComes, At, UpNow

LEMMA ReadNotifyKeeps ==
  ASSUME AInv, ReadNotify
  PROVE  AInv'
<1>1. /\ pc["stratum"] = "read" /\ isconnected' = TRUE /\ stale = None
      /\ UNCHANGED <<transport, alive, is_using_fallback, session, abandon_work,
                     stratum_queue, buildVars, chipVars, cleaned, share, reachable>>
      /\ UNCHANGED <<ret, rx, retry_attempts, stale>>
  BY LineKeeps DEF ReadNotify, LineOfSession
<1>2. rx \in 1 .. Len(session)
  BY DEF ReadNotify, LineOfSession, Opened, AInv, TypeOK
<1>3. PICK there \in {"notify", "clean_test"} :
         /\ Goto("stratum", there) /\ gen' \in 0 .. MaxGen
         /\ gen' >= gen /\ (there = "clean_test" => gen' > 0)
  BY Constants DEF ReadNotify, AInv, TypeOK
<1>4. /\ pc'["stratum"] = there /\ pc'["result"] = pc["result"]
      /\ pc' \in [Tasks -> StratumPlaces \cup ResultPlaces]
      /\ pc'["stratum"] \in StratumPlaces /\ pc'["result"] \in ResultPlaces
  BY <1>3, Going DEF AInv, StratumPlaces
<1>5. TypeOK'
  BY <1>1, <1>3, <1>4 DEF AInv, TypeOK, buildVars, chipVars
<1>6. ReturnOK' /\ LinkOK'
  BY <1>1, <1>3, <1>4 DEF AInv, ReturnOK, LinkOK, NoLink, NewLink, CleaningFor, Cleans
<1>7. LoopOK'
  BY <1>1, <1>2, <1>3, <1>4, Constants
     DEF AInv, TypeOK, LoopOK, Handling, CleaningFor, Cleans
<1>8. WorkOK' /\ ShareOK'
  BY <1>1, <1>3, <1>4, WorkStays, ShareStays DEF AInv, Unheard, CleaningFor, Cleans, buildVars
<1> QED  BY <1>5, <1>6, <1>7, <1>8 DEF AInv

LEMMA ReadOtherKeeps ==
  ASSUME AInv, ReadOther
  PROVE  AInv'
<1>1. /\ pc["stratum"] = "read" /\ isconnected' = TRUE /\ rx' = transport
      /\ retry_attempts' \in {retry_attempts, 0}
      /\ UNCHANGED <<transport, alive, is_using_fallback, session, abandon_work,
                     stratum_queue, buildVars, chipVars, cleaned, share, reachable>>
      /\ UNCHANGED <<pc, ret, gen, stale>>
  BY LineKeeps DEF ReadOther, LineOfSession
<1>2. TypeOK'
  BY <1>1, Constants DEF AInv, TypeOK, buildVars, chipVars
<1>3. ReturnOK' /\ LinkOK' /\ LoopOK'
  BY <1>1 DEF AInv, ReturnOK, LinkOK, NoLink, NewLink, LoopOK, Handling, CleaningFor, Cleans
<1>4. WorkOK' /\ ShareOK'
  BY <1>1, WorkStays, ShareStays DEF AInv, Unheard, CleaningFor, Cleans, buildVars
<1> QED  BY <1>2, <1>3, <1>4 DEF AInv

LEMMA ReadReconnectKeeps ==
  ASSUME AInv, ReadReconnect
  PROVE  AInv'
<1>1. /\ pc["stratum"] = "read" /\ isconnected' = TRUE
      /\ Goto("stratum", "close") /\ ret' = "down"
      /\ stale' \in {None, [gen |-> gen, ses |-> rx, late |-> TRUE]}
      /\ UNCHANGED <<transport, alive, is_using_fallback, session, abandon_work,
                     stratum_queue, buildVars, chipVars, cleaned, share, reachable>>
      /\ UNCHANGED <<rx, retry_attempts, gen>>
  BY LineKeeps DEF ReadReconnect, LineOfSession
<1>2. rx \in 1 .. Len(session)
  BY DEF ReadReconnect, LineOfSession, Opened, AInv, TypeOK
<1>3. /\ pc'["stratum"] = "close" /\ pc'["result"] = pc["result"]
      /\ pc' \in [Tasks -> StratumPlaces \cup ResultPlaces]
      /\ pc'["stratum"] \in StratumPlaces /\ pc'["result"] \in ResultPlaces
  BY <1>1, Going DEF AInv, StratumPlaces, Closes
<1>4. stale' \in Work
  <2>1. [gen |-> gen, ses |-> rx, late |-> TRUE] \in Work
    BY DEF AInv, TypeOK, Work
  <2> QED  BY <1>1, <2>1, Constants
<1>5. TypeOK'
  BY <1>1, <1>3, <1>4 DEF AInv, TypeOK, buildVars, chipVars
<1>6. ReturnOK' /\ LinkOK' /\ LoopOK'
  BY <1>1, <1>3 DEF AInv, ReturnOK, LinkOK, NoLink, NewLink, LoopOK, Handling, CleaningFor, Cleans
<1>7. ~Unheard'
  BY <1>1, <1>3 DEF Unheard, CleaningFor, Cleans
<1>8. NoneOrHeard(stale)'
  BY <1>1, <1>2, <1>7 DEF NoneOrHeard, Heard
<1>9. WorkOK'
  BY <1>1, <1>7, <1>8 DEF AInv, WorkOK, NoneOrHeard, Heard, buildVars, chipVars
<1>10. ShareOK'
  BY <1>1, <1>3, ShareStays DEF AInv
<1> QED  BY <1>5, <1>6, <1>9, <1>10 DEF AInv

LEMMA ReadStaleKeeps ==
  ASSUME AInv, ReadStale
  PROVE  AInv'
<1>1. /\ pc["stratum"] = "read" /\ isconnected' = TRUE /\ stale # None
      /\ Goto("stratum", "notify")
      /\ UNCHANGED <<transport, alive, is_using_fallback, session, abandon_work,
                     stratum_queue, buildVars, chipVars, cleaned, share, reachable>>
      /\ UNCHANGED <<ret, rx, retry_attempts, stale, gen>>
  BY LineKeeps DEF ReadStale
<1>2. /\ pc'["stratum"] = "notify" /\ pc'["result"] = pc["result"]
      /\ pc' \in [Tasks -> StratumPlaces \cup ResultPlaces]
      /\ pc'["stratum"] \in StratumPlaces /\ pc'["result"] \in ResultPlaces
  BY <1>1, Going DEF AInv, StratumPlaces
<1>3. TypeOK'
  BY <1>1, <1>2 DEF AInv, TypeOK, buildVars, chipVars
<1>4. ReturnOK' /\ LinkOK' /\ LoopOK'
  BY <1>1, <1>2 DEF AInv, ReturnOK, LinkOK, NoLink, NewLink, LoopOK, Handling, CleaningFor, Cleans
<1>5. WorkOK' /\ ShareOK'
  BY <1>1, <1>2, WorkStays, ShareStays DEF AInv, Unheard, CleaningFor, Cleans, buildVars
<1> QED  BY <1>3, <1>4, <1>5 DEF AInv

LEMMA ReadFailsKeeps ==
  ASSUME AInv, ReadFails
  PROVE  AInv'
<1>1. /\ pc["stratum"] = "read" /\ Goto("stratum", "close") /\ ret' = "down"
      /\ retry_attempts' = Counted
      /\ UNCHANGED <<linkVars, is_using_fallback, session, workVars, share, reachable>>
  BY DEF ReadFails, At
<1>2. /\ pc'["stratum"] = "close" /\ pc'["result"] = pc["result"]
      /\ pc' \in [Tasks -> StratumPlaces \cup ResultPlaces]
      /\ pc'["stratum"] \in StratumPlaces /\ pc'["result"] \in ResultPlaces
  BY <1>1, Going DEF AInv, StratumPlaces, Closes
<1>3. TypeOK'
  BY <1>1, <1>2, CountedType DEF AInv, TypeOK, linkVars, workVars, notifyVars, buildVars, chipVars
<1>4. ReturnOK' /\ LinkOK' /\ LoopOK'
  BY <1>1, <1>2 DEF AInv, ReturnOK, LinkOK, NoLink, NewLink, LoopOK, Handling, CleaningFor,
     Cleans, linkVars, workVars
<1>5. WorkOK' /\ ShareOK'
  BY <1>1, <1>2, WorkStays, ShareStays DEF AInv, Unheard, CleaningFor, Cleans, linkVars,
     workVars, notifyVars, buildVars
<1> QED  BY <1>3, <1>4, <1>5 DEF AInv

\* The history flag says nothing of a session.
LEMMA LateKeeps ==
  ASSUME NEW j \in Work
  PROVE  /\ Late(j) \in Work /\ Late(j).ses = j.ses
         /\ NoneOrHeard(j) => NoneOrHeard(Late(j))
         /\ NoneOrHeard(j) /\ Late(j) = None => j = None
<1>1. CASE j = None
  BY <1>1, Constants DEF Late
<1>2. CASE j # None
  <2>1. Late(j) = [gen |-> j.gen, ses |-> j.ses, late |-> TRUE]
    BY <1>2 DEF Late, Work
  <2> QED  BY <1>2, <2>1, Constants DEF Work, NoneOrHeard, Heard, None
<1> QED  BY <1>1, <1>2

LEMMA CleanTestKeeps ==
  ASSUME AInv, CleanTest
  PROVE  AInv'
<1>1. /\ pc["stratum"] = "clean_test"
      /\ UNCHANGED <<linkVars, dialVars, notifyVars, gen, share, reachable>>
      /\ gen > 0 /\ isconnected /\ rx \in 1 .. Len(session)
  BY DEF CleanTest, At, AInv, LoopOK, Handling
<1>2. CASE Goto("stratum", "clean_flag") /\ ret' = "notify" /\ UNCHANGED <<buildVars, chipVars, cleaned>>
  <2>1. /\ pc'["stratum"] = "clean_flag" /\ pc'["result"] = pc["result"]
        /\ pc' \in [Tasks -> StratumPlaces \cup ResultPlaces]
        /\ pc'["stratum"] \in StratumPlaces /\ pc'["result"] \in ResultPlaces
    BY <1>2, Going DEF AInv, StratumPlaces, Closes
  <2>2. TypeOK'
    BY <1>1, <1>2, <2>1 DEF AInv, TypeOK, linkVars, dialVars, notifyVars, buildVars, chipVars
  <2>3. ReturnOK' /\ LinkOK' /\ LoopOK'
    BY <1>1, <1>2, <2>1 DEF AInv, ReturnOK, LinkOK, NoLink, NewLink, LoopOK, Handling,
       CleaningFor, Cleans, linkVars, dialVars, notifyVars
  <2>4. WorkOK' /\ ShareOK'
    BY <1>1, <1>2, <2>1, WorkStays, ShareStays DEF AInv, Unheard, CleaningFor, Cleans,
       linkVars, dialVars, notifyVars, buildVars
  <2> QED  BY <2>2, <2>3, <2>4 DEF AInv
<1>3. CASE /\ Goto("stratum", "notify") /\ MarkInHand
           /\ slot' = Late(slot)
           /\ UNCHANGED <<ret, asic_queue>>
  <2>1. /\ pc'["stratum"] = "notify" /\ pc'["result"] = pc["result"]
        /\ pc' \in [Tasks -> StratumPlaces \cup ResultPlaces]
        /\ pc'["stratum"] \in StratumPlaces /\ pc'["result"] \in ResultPlaces
    BY <1>3, Going DEF AInv, StratumPlaces
  <2>2. /\ held \in Work /\ builder.job \in Work /\ sending \in Work /\ slot \in Work
        /\ builder \in [at : {"wait", "check", "build", "put", "purge"}, job : Work]
    BY DEF AInv, TypeOK
  <2>3. /\ held' = Late(held) /\ sending' = Late(sending) /\ slot' = Late(slot)
        /\ builder' = [builder EXCEPT !.job = Late(builder.job)]
        /\ cleaned' = gen - 1
    BY <1>3 DEF MarkInHand
  <2>4. TypeOK'
    <3>1. cleaned' \in 0 .. MaxGen
      BY <1>1, <2>3, Constants DEF AInv, TypeOK
    <3>2. builder' \in [at : {"wait", "check", "build", "put", "purge"}, job : Work]
      BY <2>2, <2>3, LateKeeps
    <3>3. held' \in Work /\ sending' \in Work /\ slot' \in Work
      BY <2>2, <2>3, LateKeeps
    <3> QED  BY <1>1, <1>3, <2>1, <3>1, <3>2, <3>3
                DEF AInv, TypeOK, linkVars, dialVars, notifyVars
  <2>5. ReturnOK' /\ LinkOK' /\ LoopOK'
    BY <1>1, <1>3, <2>1 DEF AInv, ReturnOK, LinkOK, NoLink, NewLink, LoopOK, Handling,
       CleaningFor, Cleans, linkVars, dialVars, notifyVars
  <2>6. /\ NoneOrHeard(Late(held)) /\ NoneOrHeard(Late(builder.job))
        /\ NoneOrHeard(Late(sending)) /\ NoneOrHeard(Late(slot))
    BY <2>2, LateKeeps DEF AInv, WorkOK
  <2>7. ~Unheard'
    BY <2>1 DEF Unheard, CleaningFor, Cleans
  <2>8. WorkOK'
    BY <1>1, <1>3, <2>2, <2>3, <2>6, <2>7
       DEF AInv, WorkOK, NoneOrHeard, Heard, notifyVars, dialVars
  <2>9. ShareOK'
    BY <1>1, <2>1, ShareStays DEF AInv, linkVars, dialVars
  <2> QED  BY <2>4, <2>5, <2>8, <2>9 DEF AInv
<1> QED  BY <1>2, <1>3 DEF CleanTest

LEMMA NotifyTestKeeps ==
  ASSUME AInv, NotifyTest
  PROVE  AInv'
<1>1. /\ pc["stratum"] = "notify" /\ RoomMade \in {"room", "enqueue"}
      /\ Goto("stratum", RoomMade)
      /\ UNCHANGED <<ret, linkVars, dialVars, workVars, share, reachable>>
  BY DEF NotifyTest, At, RoomMade
<1>2. /\ pc'["stratum"] \in {"room", "enqueue"} /\ pc'["result"] = pc["result"]
      /\ pc' \in [Tasks -> StratumPlaces \cup ResultPlaces]
      /\ pc'["stratum"] \in StratumPlaces /\ pc'["result"] \in ResultPlaces
  BY <1>1, Going DEF AInv, StratumPlaces
<1>3. TypeOK'
  BY <1>1, <1>2 DEF AInv, TypeOK, linkVars, dialVars, workVars, notifyVars, buildVars, chipVars
<1>4. ReturnOK' /\ LinkOK' /\ LoopOK'
  BY <1>1, <1>2 DEF AInv, ReturnOK, LinkOK, NoLink, NewLink, LoopOK, Handling, CleaningFor,
     Cleans, linkVars, dialVars, workVars, notifyVars
<1>5. WorkOK' /\ ShareOK'
  BY <1>1, <1>2, WorkStays, ShareStays DEF AInv, Unheard, CleaningFor, Cleans, linkVars,
     dialVars, workVars, notifyVars, buildVars
<1> QED  BY <1>3, <1>4, <1>5 DEF AInv

LEMMA NotifyRoomKeeps ==
  ASSUME AInv, NotifyRoom
  PROVE  AInv'
<1>1. /\ pc["stratum"] = "room" /\ Goto("stratum", "enqueue")
      /\ stratum_queue' = IF stratum_queue = <<>> THEN <<>> ELSE Tail(stratum_queue)
      /\ UNCHANGED <<ret, linkVars, dialVars, abandon_work, stale, buildVars, chipVars, gen,
                     cleaned, share, reachable>>
  BY DEF NotifyRoom, At
<1>2. /\ pc'["stratum"] = "enqueue" /\ pc'["result"] = pc["result"]
      /\ pc' \in [Tasks -> StratumPlaces \cup ResultPlaces]
      /\ pc'["stratum"] \in StratumPlaces /\ pc'["result"] \in ResultPlaces
  BY <1>1, Going DEF AInv, StratumPlaces
<1>3. stratum_queue' \in Seq(Work)
      /\ \A i \in 1 .. Len(stratum_queue') : Heard(stratum_queue'[i])
  BY <1>1 DEF AInv, TypeOK, WorkOK
<1>4. TypeOK'
  BY <1>1, <1>2, <1>3 DEF AInv, TypeOK, linkVars, dialVars, buildVars, chipVars
<1>5. ReturnOK' /\ LinkOK' /\ LoopOK'
  BY <1>1, <1>2 DEF AInv, ReturnOK, LinkOK, NoLink, NewLink, LoopOK, Handling, CleaningFor,
     Cleans, linkVars, dialVars
<1>6. ~Unheard'
  BY <1>2 DEF Unheard, CleaningFor, Cleans
<1>7. WorkOK' /\ ShareOK'
  BY <1>1, <1>2, <1>3, <1>6, ShareStays
     DEF AInv, WorkOK, NoneOrHeard, Heard, dialVars, linkVars, buildVars, chipVars
<1> QED  BY <1>4, <1>5, <1>7 DEF AInv

LEMMA NotifyEnqueueKeeps ==
  ASSUME AInv, NotifyEnqueue
  PROVE  AInv'
<1> DEFINE new == IF stale = None THEN [gen |-> gen, ses |-> rx, late |-> FALSE] ELSE stale
<1>1. /\ pc["stratum"] = "enqueue" /\ Goto("stratum", "read")
      /\ stratum_queue' = Append(stratum_queue, new)
      /\ stale' = None /\ rx' = transport
      /\ UNCHANGED <<ret, transport, alive, isconnected, dialVars, abandon_work, buildVars,
                     chipVars, gen, cleaned, share, reachable>>
  BY DEF NotifyEnqueue, At
<1>2. /\ pc'["stratum"] = "read" /\ pc'["result"] = pc["result"]
      /\ pc' \in [Tasks -> StratumPlaces \cup ResultPlaces]
      /\ pc'["stratum"] \in StratumPlaces /\ pc'["result"] \in ResultPlaces
  BY <1>1, Going DEF AInv, StratumPlaces
<1>3. isconnected /\ (stale = None => rx \in 1 .. Len(session))
  BY <1>1 DEF AInv, LoopOK, Handling
<1>4. new \in Work /\ new.ses \in 1 .. Len(session)
  <2>1. [gen |-> gen, ses |-> rx, late |-> FALSE] \in Work
    BY DEF AInv, TypeOK, Work
  <2>2. stale # None => stale.ses \in 1 .. Len(session)
    BY DEF AInv, WorkOK, NoneOrHeard, Heard
  <2>3. stale \in Work
    BY DEF AInv, TypeOK
  <2> QED  BY <1>3, <2>1, <2>2, <2>3
<1> HIDE DEF new
<1>5. stratum_queue' \in Seq(Work)
      /\ \A i \in 1 .. Len(stratum_queue') : stratum_queue'[i].ses \in 1 .. Len(session)
  BY <1>1, <1>4 DEF AInv, TypeOK, WorkOK, Heard
<1>6. TypeOK'
  BY <1>1, <1>2, <1>5, Constants DEF AInv, TypeOK, dialVars, buildVars, chipVars
<1>7. ReturnOK' /\ LinkOK' /\ LoopOK'
  BY <1>1, <1>2, <1>3 DEF AInv, ReturnOK, LinkOK, NoLink, NewLink, LoopOK, Handling,
     CleaningFor, Cleans, dialVars
<1>8. ~Unheard'
  BY <1>1, <1>2, <1>3 DEF Unheard, CleaningFor, Cleans
<1>9. WorkOK'
  BY <1>1, <1>5, <1>8 DEF AInv, WorkOK, NoneOrHeard, Heard, dialVars, buildVars, chipVars
<1>10. ShareOK'
  BY <1>1, <1>2, ShareStays DEF AInv, dialVars
<1> QED  BY <1>6, <1>7, <1>9, <1>10 DEF AInv

LEMMA DownKeeps ==
  ASSUME AInv, Down
  PROVE  AInv'
<1>1. /\ pc["stratum"] = "down" /\ Goto("stratum", "top") /\ transport = NoHandle
      /\ isconnected' = FALSE /\ rx' = NoHandle
      /\ UNCHANGED <<ret, transport, alive, dialVars, workVars, share, reachable>>
  BY DEF Down, At, AInv, LinkOK, NoLink
<1>2. /\ pc'["stratum"] = "top" /\ pc'["result"] = pc["result"]
      /\ pc' \in [Tasks -> StratumPlaces \cup ResultPlaces]
      /\ pc'["stratum"] \in StratumPlaces /\ pc'["result"] \in ResultPlaces
  BY <1>1, Going DEF AInv, StratumPlaces
<1>3. TypeOK'
  BY <1>1, <1>2 DEF AInv, TypeOK, dialVars, workVars, notifyVars, buildVars, chipVars
<1>4. ReturnOK' /\ LinkOK' /\ LoopOK'
  BY <1>1, <1>2 DEF AInv, ReturnOK, LinkOK, NoLink, NewLink, LoopOK, Handling, CleaningFor,
     Cleans, dialVars, workVars, notifyVars
<1>5. WorkOK' /\ ShareOK'
  BY <1>1, <1>2, WorkStays, ShareStays DEF AInv, Unheard, CleaningFor, Cleans, dialVars,
     workVars, notifyVars, buildVars
<1> QED  BY <1>3, <1>4, <1>5 DEF AInv

-----------------------------------------------------------------------------
(* stratum_close_connection and cleanQueue, of stratum_task. *)

\* Where stratum_task goes from a procedure that it has called.
LEMMA Returning ==
  ASSUME AInv, Return("stratum"), pc["stratum"] \in Closes
  PROVE  /\ ret \in {"top", "hello", "notify", "down"}
         /\ pc'["stratum"] = ret /\ ret' = "none" /\ pc'["result"] = pc["result"]
         /\ pc' \in [Tasks -> StratumPlaces \cup ResultPlaces]
         /\ pc'["stratum"] \in StratumPlaces /\ pc'["result"] \in ResultPlaces
<1>1. ret \in {"top", "hello", "notify", "down"}
  BY DEF AInv, ReturnOK, Closes, Cleans
<1>2. Goto("stratum", ret) /\ ret' = "none"
  BY DEF Return, After
<1>3. ret \in StratumPlaces
  BY <1>1 DEF StratumPlaces
<1> QED  BY <1>1, <1>2, <1>3, Going DEF AInv

LEMMA CloseTestKeeps ==
  ASSUME AInv, CloseTest("stratum")
  PROVE  AInv'
<1>1. /\ pc["stratum"] = "close" /\ ret = "down"
      /\ UNCHANGED <<linkVars, dialVars, workVars, share, reachable>>
  BY DEF CloseTest, At, AInv, ReturnOK
<1>2. /\ \/ transport = NoHandle /\ pc'["stratum"] = "down" /\ ret' = "none"
         \/ pc'["stratum"] = "destroy" /\ ret' = "down"
      /\ pc'["result"] = pc["result"]
      /\ pc' \in [Tasks -> StratumPlaces \cup ResultPlaces]
      /\ pc'["stratum"] \in StratumPlaces /\ pc'["result"] \in ResultPlaces
  <2>1. CASE transport = NoHandle
    BY <1>1, <2>1, Returning DEF CloseTest, Closes
  <2>2. CASE transport # NoHandle
    BY <1>1, <2>2, Going DEF CloseTest, Step, AInv, StratumPlaces, Closes
  <2> QED  BY <2>1, <2>2
<1>3. TypeOK'
  BY <1>1, <1>2 DEF AInv, TypeOK, linkVars, dialVars, workVars, notifyVars, buildVars, chipVars
<1>4. ReturnOK' /\ LinkOK' /\ LoopOK'
  BY <1>1, <1>2 DEF AInv, ReturnOK, LinkOK, NoLink, NewLink, LoopOK, Handling, CleaningFor,
     Cleans, linkVars, dialVars, workVars, notifyVars
<1>5. WorkOK' /\ ShareOK'
  BY <1>1, <1>2, WorkStays, ShareStays DEF AInv, Unheard, CleaningFor, Cleans, linkVars,
     dialVars, workVars, notifyVars, buildVars
<1> QED  BY <1>3, <1>4, <1>5 DEF AInv

LEMMA DestroyKeeps ==
  ASSUME AInv, Destroy("stratum")
  PROVE  AInv'
<1>1. /\ pc["stratum"] = "destroy" /\ Goto("stratum", "null") /\ alive' = alive \ {transport}
      /\ UNCHANGED <<ret, transport, rx, isconnected, dialVars, workVars, share, reachable>>
  BY DEF Destroy, At, Step
<1>2. /\ pc'["stratum"] = "null" /\ pc'["result"] = pc["result"]
      /\ pc' \in [Tasks -> StratumPlaces \cup ResultPlaces]
      /\ pc'["stratum"] \in StratumPlaces /\ pc'["result"] \in ResultPlaces
  BY <1>1, Going DEF AInv, StratumPlaces, Closes
<1>3. TypeOK'
  BY <1>1, <1>2 DEF AInv, TypeOK, dialVars, workVars, notifyVars, buildVars, chipVars
<1>4. ReturnOK' /\ LinkOK' /\ LoopOK'
  BY <1>1, <1>2 DEF AInv, ReturnOK, LinkOK, NoLink, NewLink, LoopOK, Handling, CleaningFor,
     Cleans, dialVars, workVars, notifyVars
<1>5. WorkOK' /\ ShareOK'
  BY <1>1, <1>2, WorkStays, ShareStays DEF AInv, Unheard, CleaningFor, Cleans, dialVars,
     workVars, notifyVars, buildVars
<1> QED  BY <1>3, <1>4, <1>5 DEF AInv

LEMMA NullKeeps ==
  ASSUME AInv, Null("stratum")
  PROVE  AInv'
<1>1. /\ pc["stratum"] = "null" /\ transport' = NoHandle
      /\ UNCHANGED <<alive, rx, isconnected, dialVars, workVars, share, reachable>>
  BY DEF Null, At
<1>2. /\ \/ pc'["stratum"] = "top" /\ ret' = "none"
         \/ pc'["stratum"] = "clean_flag" /\ ret' = "down"
      /\ pc'["result"] = pc["result"]
      /\ pc' \in [Tasks -> StratumPlaces \cup ResultPlaces]
      /\ pc'["stratum"] \in StratumPlaces /\ pc'["result"] \in ResultPlaces
  <2>1. ret \in {"top", "down"}
    BY <1>1 DEF AInv, ReturnOK
  <2>2. CASE ret = "top"
    BY <1>1, <2>2, Returning DEF Null, After, Closes
  <2>3. CASE ret = "down"
    BY <1>1, <2>3, Going DEF Null, After, Step, AInv, StratumPlaces, Closes
  <2> QED  BY <2>1, <2>2, <2>3
<1>3. TypeOK'
  BY <1>1, <1>2 DEF AInv, TypeOK, dialVars, workVars, notifyVars, buildVars, chipVars
<1>4. ReturnOK' /\ LinkOK' /\ LoopOK'
  BY <1>1, <1>2 DEF AInv, ReturnOK, LinkOK, NoLink, NewLink, LoopOK, Handling, CleaningFor,
     Cleans, dialVars, workVars, notifyVars
<1>5. WorkOK' /\ ShareOK'
  BY <1>1, <1>2, WorkStays, ShareStays DEF AInv, Unheard, CleaningFor, Cleans, dialVars,
     workVars, notifyVars, buildVars
<1> QED  BY <1>3, <1>4, <1>5 DEF AInv

LEMMA CleanFlagKeeps ==
  ASSUME AInv, CleanFlag("stratum")
  PROVE  AInv'
<1>1. /\ pc["stratum"] = "clean_flag" /\ Goto("stratum", "clean_queue") /\ abandon_work' = TRUE
      /\ UNCHANGED <<ret, linkVars, dialVars, stratum_queue, stale, buildVars, chipVars, gen,
                     cleaned, share, reachable>>
  BY DEF CleanFlag, At, Step
<1>2. /\ pc'["stratum"] = "clean_queue" /\ pc'["result"] = pc["result"]
      /\ pc' \in [Tasks -> StratumPlaces \cup ResultPlaces]
      /\ pc'["stratum"] \in StratumPlaces /\ pc'["result"] \in ResultPlaces
  BY <1>1, Going DEF AInv, StratumPlaces, Closes
<1>3. TypeOK'
  BY <1>1, <1>2 DEF AInv, TypeOK, linkVars, dialVars, buildVars, chipVars
<1>4. ReturnOK' /\ LinkOK' /\ LoopOK'
  BY <1>1, <1>2 DEF AInv, ReturnOK, LinkOK, NoLink, NewLink, LoopOK, Handling, CleaningFor,
     Cleans, linkVars, dialVars
<1>5. WorkOK' /\ ShareOK'
  BY <1>1, <1>2, WorkStays, ShareStays DEF AInv, Unheard, CleaningFor, Cleans, linkVars,
     dialVars, buildVars
<1> QED  BY <1>3, <1>4, <1>5 DEF AInv

LEMMA CleanQueueKeeps ==
  ASSUME AInv, CleanQueue("stratum")
  PROVE  AInv'
<1>1. /\ pc["stratum"] = "clean_queue" /\ Goto("stratum", "clean_work")
      /\ stratum_queue' = <<>>
      /\ UNCHANGED <<ret, linkVars, dialVars, abandon_work, stale, buildVars, chipVars, gen,
                     cleaned, share, reachable>>
  BY DEF CleanQueue, At, Step
<1>2. /\ pc'["stratum"] = "clean_work" /\ pc'["result"] = pc["result"]
      /\ pc' \in [Tasks -> StratumPlaces \cup ResultPlaces]
      /\ pc'["stratum"] \in StratumPlaces /\ pc'["result"] \in ResultPlaces
  BY <1>1, Going DEF AInv, StratumPlaces, Closes
<1>3. TypeOK'
  BY <1>1, <1>2 DEF AInv, TypeOK, linkVars, dialVars, buildVars, chipVars
<1>4. ReturnOK' /\ LinkOK' /\ LoopOK'
  BY <1>1, <1>2 DEF AInv, ReturnOK, LinkOK, NoLink, NewLink, LoopOK, Handling, CleaningFor,
     Cleans, linkVars, dialVars
<1>5. Unheard' => Unheard
  BY <1>1, <1>2 DEF Unheard, CleaningFor, Cleans
<1>6. WorkOK'
  BY <1>1, <1>5 DEF AInv, WorkOK, NoneOrHeard, Heard, dialVars, buildVars, chipVars
<1>7. ShareOK'
  BY <1>1, <1>2, ShareStays DEF AInv, linkVars, dialVars
<1> QED  BY <1>3, <1>4, <1>6, <1>7 DEF AInv

LEMMA CleanWorkKeeps ==
  ASSUME AInv, CleanWork("stratum")
  PROVE  AInv'
<1>1. /\ pc["stratum"] = "clean_work" /\ asic_queue' = <<>> /\ slot' = None
      /\ Return("stratum")
      /\ UNCHANGED <<linkVars, dialVars, notifyVars, gen, share, reachable>>
  BY DEF CleanWork, At, SlotCleaned
<1>2. /\ ret \in {"hello", "notify", "down"}
      /\ pc'["stratum"] = ret /\ ret' = "none" /\ pc'["result"] = pc["result"]
      /\ pc' \in [Tasks -> StratumPlaces \cup ResultPlaces]
      /\ pc'["stratum"] \in StratumPlaces /\ pc'["result"] \in ResultPlaces
  BY <1>1, Returning DEF AInv, ReturnOK, Cleans, Closes
<1>3. /\ held \in Work /\ builder.job \in Work /\ sending \in Work
      /\ builder \in [at : {"wait", "check", "build", "put", "purge"}, job : Work]
      /\ gen \in 0 .. MaxGen /\ cleaned \in 0 .. MaxGen
      /\ NoneOrHeard(held) /\ NoneOrHeard(builder.job) /\ NoneOrHeard(sending)
  BY DEF AInv, TypeOK, WorkOK
<1>4. /\ held' \in Work /\ sending' \in Work /\ cleaned' \in 0 .. MaxGen
      /\ builder' \in [at : {"wait", "check", "build", "put", "purge"}, job : Work]
      /\ (held' = None \/ (held'.ses = held.ses /\ Heard(held)))
      /\ (sending' = None \/ (sending'.ses = sending.ses /\ Heard(sending)))
      /\ (builder'.job = None \/ (builder'.job.ses = builder.job.ses /\ Heard(builder.job)))
  <2>1. CASE ret = "down"
    <3>1. UNCHANGED <<buildVars, sending, cleaned>>
      BY <2>1 DEF CleanWork
    <3> QED  BY <1>3, <3>1 DEF buildVars, NoneOrHeard
  <2>2. CASE ret # "down"
    <3>1. /\ held' = Late(held) /\ sending' = Late(sending) /\ cleaned' = gen - 1
          /\ builder' = [builder EXCEPT !.job = Late(builder.job)]
      BY <2>2 DEF CleanWork, MarkInHand
    <3>2. gen > 0
      BY <1>1, <1>2, <2>2 DEF AInv, LoopOK, CleaningFor, Cleans
    <3>3. cleaned' \in 0 .. MaxGen
      BY <1>3, <3>1, <3>2, Constants
    <3>4. held' \in Work /\ (held' = None \/ (held'.ses = held.ses /\ Heard(held)))
      BY <1>3, <3>1, LateKeeps DEF NoneOrHeard, Late
    <3>5. sending' \in Work
          /\ (sending' = None \/ (sending'.ses = sending.ses /\ Heard(sending)))
      BY <1>3, <3>1, LateKeeps DEF NoneOrHeard, Late
    <3>6. Late(builder.job) \in Work
          /\ (builder.job = None \/ Heard(builder.job))
          /\ (builder.job = None => Late(builder.job) = None)
          /\ Late(builder.job).ses = builder.job.ses
      BY <1>3, LateKeeps DEF NoneOrHeard, Late
    <3>7. /\ builder' \in [at : {"wait", "check", "build", "put", "purge"}, job : Work]
          /\ builder'.job = Late(builder.job)
      BY <1>3, <3>1, <3>6
    <3> QED  BY <3>3, <3>4, <3>5, <3>6, <3>7
  <2> QED  BY <2>1, <2>2
<1>5. TypeOK'
  BY <1>1, <1>2, <1>4, Constants DEF AInv, TypeOK, linkVars, dialVars, notifyVars
<1>6. ReturnOK' /\ LinkOK' /\ LoopOK'
  BY <1>1, <1>2 DEF AInv, ReturnOK, LinkOK, NoLink, NewLink, LoopOK, Handling, CleaningFor,
     Cleans, linkVars, dialVars, notifyVars
<1>7. Unheard' => Unheard
  BY <1>1, <1>2 DEF Unheard, CleaningFor, Cleans
<1>8. WorkOK'
  BY <1>1, <1>4, <1>7 DEF AInv, WorkOK, NoneOrHeard, Heard, notifyVars, dialVars
<1>9. ShareOK'
  BY <1>1, <1>2, ShareStays DEF AInv, linkVars, dialVars
<1> QED  BY <1>5, <1>6, <1>8, <1>9 DEF AInv

-----------------------------------------------------------------------------
(* The result task. *)

\* Wherever it closes the transport, or goes back to waiting, it has no share in
\* hand, and takes nothing from stratum_task but the transport and the work.
LEMMA ResultLeaves ==
  ASSUME AInv, NEW there \in Closes \cup {"idle"}, Goto("result", there),
         UNCHANGED <<ret, rx, isconnected, dialVars, stale, buildVars, sending, gen, cleaned,
                     reachable>>,
         transport' \in {transport, NoHandle}, alive' \in SUBSET Handles,
         abandon_work' \in BOOLEAN, stratum_queue' \in {stratum_queue, <<>>},
         asic_queue' \in {asic_queue, <<>>}, slot' \in {slot, None},
         share' \in {share, NoShare}
  PROVE  AInv'
<1>1. /\ pc'["result"] = there /\ pc'["stratum"] = pc["stratum"]
      /\ pc' \in [Tasks -> StratumPlaces \cup ResultPlaces]
      /\ pc'["stratum"] \in StratumPlaces /\ pc'["result"] \in ResultPlaces
  BY ResultGoing DEF AInv, ResultPlaces
<1>2. share' \in [ses : Handles \cup {NoHandle}, user : Endpoints, handle : Handles \cup {NoHandle}]
  BY DEF AInv, TypeOK, NoShare, Endpoints
<1>3. /\ stratum_queue' \in Seq(Work) /\ asic_queue' \in Seq(Work) /\ slot' \in Work
      /\ transport' \in Handles \cup {NoHandle}
  <2>1. <<>> \in Seq(Work)
    OBVIOUS
  <2> QED  BY <2>1, Constants DEF AInv, TypeOK
<1>4. TypeOK'
  BY <1>1, <1>2, <1>3 DEF AInv, TypeOK, dialVars, buildVars
<1>5. ReturnOK' /\ LinkOK' /\ LoopOK'
  BY <1>1, LinkStays DEF AInv, dialVars
<1>6. Unheard' => Unheard
  BY <1>1 DEF Unheard, CleaningFor
<1>7. WorkOK'
  BY <1>6 DEF AInv, WorkOK, NoneOrHeard, Heard, dialVars, buildVars
<1>8. ShareOK'
  BY <1>1 DEF ShareOK, Closes
<1> QED  BY <1>4, <1>5, <1>7, <1>8 DEF AInv

LEMMA ResultClosingKeeps ==
  ASSUME AInv, Closing("result")
  PROVE  AInv'
<1> USE DEF AInv, TypeOK, Closes, Step, Return, After, linkVars, dialVars, workVars, notifyVars,
            buildVars, chipVars
<1>1. CASE CloseTest("result")
  <2>1. PICK there \in {"idle", "destroy"} : Goto("result", there) /\ UNCHANGED ret
    BY <1>1 DEF CloseTest
  <2> QED  BY <1>1, <2>1, ResultLeaves DEF CloseTest
<1>2. CASE Destroy("result")
  BY <1>2, ResultLeaves DEF Destroy
<1>3. CASE Null("result")
  BY <1>3, ResultLeaves DEF Null
<1>4. CASE CleanFlag("result")
  BY <1>4, ResultLeaves DEF CleanFlag
<1>5. CASE CleanQueue("result")
  BY <1>5, ResultLeaves DEF CleanQueue
<1>6. CASE CleanWork("result")
  BY <1>6, ResultLeaves DEF CleanWork, SlotCleaned
<1> QED  BY <1>1, <1>2, <1>3, <1>4, <1>5, <1>6 DEF Closing

\* The steps of a share that has been found, until it is written.
LEMMA ResultFinds ==
  ASSUME AInv, NEW there \in {"user", "test", "submit", "write"}, Goto("result", there),
         UNCHANGED <<ret, linkVars, dialVars, workVars, reachable>>,
         share' \in [ses : Handles \cup {NoHandle}, user : Endpoints,
                     handle : Handles \cup {NoHandle}],
         share'.ses \in 1 .. Len(session),
         there \in {"test", "submit"} /\ share'.ses = transport
             => share'.user = session[share'.ses],
         there = "write" /\ share'.ses = share'.handle
             => share'.user = session[share'.ses]
  PROVE  AInv'
<1>1. /\ pc'["result"] = there /\ pc'["stratum"] = pc["stratum"]
      /\ pc' \in [Tasks -> StratumPlaces \cup ResultPlaces]
      /\ pc'["stratum"] \in StratumPlaces /\ pc'["result"] \in ResultPlaces
  BY ResultGoing DEF AInv, ResultPlaces
<1>2. TypeOK'
  BY <1>1 DEF AInv, TypeOK, linkVars, dialVars, workVars, notifyVars, buildVars, chipVars
<1>3. ReturnOK' /\ LinkOK' /\ LoopOK'
  BY <1>1, LinkStays DEF AInv, linkVars, dialVars, workVars, notifyVars
<1>4. WorkOK'
  BY <1>1, WorkStays DEF AInv, Unheard, CleaningFor, linkVars, dialVars, workVars, notifyVars,
     buildVars
<1>5. ShareOK'
  BY <1>1 DEF ShareOK, linkVars, dialVars
<1> QED  BY <1>2, <1>3, <1>4, <1>5 DEF AInv

LEMMA ResultKeeps ==
  ASSUME AInv, Result
  PROVE  AInv'
<1>1. CASE ResultTake
  <2>1. share' = [ses |-> slot.ses, user |-> 0, handle |-> NoHandle]
    BY <1>1 DEF ResultTake, NoShare
  <2>2. slot.ses \in 1 .. Len(session) /\ slot.ses \in Handles \cup {NoHandle}
    BY <1>1 DEF ResultTake, AInv, WorkOK, NoneOrHeard, Heard, TypeOK, Work
  <2>3. Goto("result", "user") /\ UNCHANGED <<ret, linkVars, dialVars, workVars, reachable>>
    BY <1>1 DEF ResultTake
  <2> QED  BY <2>1, <2>2, <2>3, ResultFinds DEF Endpoints
\* The transport of a session is only seen while its endpoint is the chosen one.
<1>2. CASE ResultUser
  <2>1. /\ share' = [share EXCEPT !.user = is_using_fallback]
        /\ share \in [ses : Handles \cup {NoHandle}, user : Endpoints,
                      handle : Handles \cup {NoHandle}]
        /\ is_using_fallback \in Endpoints
        /\ share.ses \in 1 .. Len(session)
    BY <1>2 DEF ResultUser, UserNow, At, AInv, TypeOK, ShareOK
  <2>2. share.ses = transport => is_using_fallback = session[share.ses]
    BY <2>1, Constants DEF AInv, TypeOK, LinkOK
  <2>3. Goto("result", "test") /\ UNCHANGED <<ret, linkVars, dialVars, workVars, reachable>>
    BY <1>2 DEF ResultUser
  <2> QED  BY <2>1, <2>2, <2>3, ResultFinds
<1>3. CASE ResultTest
  <2>1. CASE transport = NoHandle
    BY <1>3, <2>1, ResultLeaves DEF ResultTest, AInv, TypeOK, linkVars, dialVars, workVars,
       notifyVars, buildVars, chipVars
  <2>2. CASE transport # NoHandle
    <3>1. /\ Goto("result", "submit") /\ UNCHANGED share
          /\ UNCHANGED <<ret, linkVars, dialVars, workVars, reachable>>
          /\ pc["result"] = "test"
      BY <1>3, <2>2 DEF ResultTest, At
    <3> QED  BY <3>1, ResultFinds DEF AInv, TypeOK, ShareOK
  <2> QED  BY <2>1, <2>2
<1>4. CASE ResultSubmit
  <2>1. /\ share' = [share EXCEPT !.handle = transport]
        /\ share \in [ses : Handles \cup {NoHandle}, user : Endpoints,
                      handle : Handles \cup {NoHandle}]
        /\ transport \in Handles \cup {NoHandle}
        /\ share.ses \in 1 .. Len(session)
        /\ share.ses = transport => share.user = session[share.ses]
    BY <1>4 DEF ResultSubmit, At, AInv, TypeOK, ShareOK
  <2>2. Goto("result", "write") /\ UNCHANGED <<ret, linkVars, dialVars, workVars, reachable>>
    BY <1>4 DEF ResultSubmit
  <2> QED  BY <2>1, <2>2, ResultFinds
<1>5. CASE ResultWritten
  <2>1. PICK there \in {"idle", "close"} : Goto("result", there)
    BY <1>5 DEF ResultWritten
  <2> QED  BY <1>5, <2>1, ResultLeaves DEF ResultWritten, AInv, TypeOK, Closes, linkVars, dialVars,
              workVars, notifyVars, buildVars, chipVars
<1>6. CASE Closing("result")
  BY <1>6, ResultClosingKeeps
<1> QED  BY <1>1, <1>2, <1>3, <1>4, <1>5, <1>6 DEF Result

-----------------------------------------------------------------------------
(* create_jobs_task and ASIC_task, which only move work that was heard of. *)

LEMMA WorkMoves ==
  ASSUME AInv,
         UNCHANGED <<pc, ret, linkVars, dialVars, stale, gen, cleaned, share, reachable>>,
         abandon_work' \in BOOLEAN,
         stratum_queue' \in Seq(Work),
         \A i \in 1 .. Len(stratum_queue') : Heard(stratum_queue'[i]),
         asic_queue' \in Seq(Work),
         \A i \in 1 .. Len(asic_queue') : NoneOrHeard(asic_queue'[i]),
         held' \in Work, NoneOrHeard(held'),
         sending' \in Work, NoneOrHeard(sending'),
         slot' \in Work, NoneOrHeard(slot'),
         builder' \in [at : {"wait", "check", "build", "put", "purge"}, job : Work],
         NoneOrHeard(builder'.job)
  PROVE  AInv'
<1>1. TypeOK'
  BY DEF AInv, TypeOK, linkVars, dialVars
<1>2. ReturnOK' /\ LinkOK' /\ LoopOK'
  BY LinkStays DEF AInv, linkVars, dialVars
<1>3. WorkOK'
  BY DEF AInv, WorkOK, NoneOrHeard, Heard, Unheard, CleaningFor, linkVars, dialVars
<1>4. ShareOK'
  BY DEF AInv, ShareOK, linkVars, dialVars
<1> QED  BY <1>1, <1>2, <1>3, <1>4 DEF AInv

\* What the invariant says of work, in the form in which its steps are given to
\* WorkMoves.
LEMMA WorkNow ==
  ASSUME AInv
  PROVE  /\ abandon_work \in BOOLEAN
         /\ stratum_queue \in Seq(Work)
         /\ \A i \in 1 .. Len(stratum_queue) : Heard(stratum_queue[i])
         /\ asic_queue \in Seq(Work)
         /\ \A i \in 1 .. Len(asic_queue) : NoneOrHeard(asic_queue[i])
         /\ held \in Work /\ NoneOrHeard(held)
         /\ sending \in Work /\ NoneOrHeard(sending)
         /\ slot \in Work /\ NoneOrHeard(slot)
         /\ builder \in [at : {"wait", "check", "build", "put", "purge"}, job : Work]
         /\ NoneOrHeard(builder.job)
         /\ None \in Work /\ NoneOrHeard(None)
  BY Constants DEF AInv, TypeOK, WorkOK, NoneOrHeard

LEMMA Builders ==
  ASSUME NEW at \in {"wait", "check", "build", "put", "purge"}
  PROVE  /\ BuilderAt(at) \in [at : {"wait", "check", "build", "put", "purge"}, job : Work]
         /\ BuilderAt(at).job = None
  BY Constants DEF BuilderAt

LEMMA EmptyQueue == <<>> \in Seq(Work) /\ Len(<<>>) = 0
  OBVIOUS

\* What goes into a queue, or out of it, is what was there.
LEMMA QueueMoves ==
  ASSUME NEW q \in Seq(Work), NEW j \in Work
  PROVE  /\ Append(q, j) \in Seq(Work)
         /\ \A i \in 1 .. Len(Append(q, j)) :
               \/ i \in 1 .. Len(q) /\ Append(q, j)[i] = q[i]
               \/ Append(q, j)[i] = j
         /\ q # <<>> => /\ Head(q) \in Work /\ 1 \in 1 .. Len(q) /\ Head(q) = q[1]
                        /\ Tail(q) \in Seq(Work)
                        /\ \A i \in 1 .. Len(Tail(q)) :
                              i + 1 \in 1 .. Len(q) /\ Tail(q)[i] = q[i + 1]
  OBVIOUS

LEMMA BuilderKeeps ==
  ASSUME AInv, Builder
  PROVE  AInv'
<1> USE DEF notifyVars, chipVars, buildVars
<1>1. CASE BuildWait
  <2>1. /\ builder' = BuilderAt("check")
        /\ UNCHANGED <<pc, ret, linkVars, dialVars, abandon_work, stale, chipVars, gen, cleaned,
                       share, reachable>>
    BY <1>1 DEF BuildWait
  <2>2. CASE stratum_queue = <<>>
    <3>1. UNCHANGED <<stratum_queue, held>>
      BY <1>1, <2>2 DEF BuildWait
    <3> QED  BY <2>1, <3>1, WorkNow, WorkMoves, Builders
  <2>3. CASE stratum_queue # <<>>
    <3>1. held' = Head(stratum_queue) /\ stratum_queue' = Tail(stratum_queue)
      BY <1>1, <2>3 DEF BuildWait
    <3>2. /\ held' \in Work /\ NoneOrHeard(held') /\ stratum_queue' \in Seq(Work)
          /\ \A i \in 1 .. Len(stratum_queue') : Heard(stratum_queue'[i])
      BY <2>3, <3>1, WorkNow, QueueMoves DEF NoneOrHeard
    <3> QED  BY <2>1, <3>2, WorkNow, WorkMoves, Builders
  <2> QED  BY <2>2, <2>3
<1>2. CASE BuildCheck
  <2>1. held' \in {held, None}
    BY <1>2 DEF BuildCheck, HeldIfUp
  <2> QED  BY <1>2, <2>1, WorkNow, WorkMoves, Builders DEF BuildCheck
<1>3. CASE BuildJob
  <2>1. builder' = [at |-> "put", job |-> held]
    BY <1>3 DEF BuildJob
  <2> QED  BY <1>3, <2>1, WorkNow, WorkMoves DEF BuildJob
<1>4. CASE BuildPut
  <2>1. asic_queue' = Append(asic_queue, builder.job) /\ builder.job \in Work
    BY <1>4, WorkNow DEF BuildPut
  <2>2. asic_queue' \in Seq(Work) /\ \A i \in 1 .. Len(asic_queue') : NoneOrHeard(asic_queue'[i])
    BY <2>1, WorkNow, QueueMoves
  <2> QED  BY <1>4, <2>2, WorkNow, WorkMoves, Builders DEF BuildPut
<1>5. CASE BuildLeave
  <2>1. PICK at \in {"wait", "purge"} : builder' = BuilderAt(at)
    BY <1>5 DEF BuildLeave
  <2> QED  BY <1>5, <2>1, WorkNow, WorkMoves, Builders DEF BuildLeave
<1>6. CASE BuildPurge
  BY <1>6, WorkNow, WorkMoves, Builders, EmptyQueue DEF BuildPurge
<1> QED  BY <1>1, <1>2, <1>3, <1>4, <1>5, <1>6 DEF Builder

LEMMA SenderKeeps ==
  ASSUME AInv, Sender
  PROVE  AInv'
<1> USE DEF notifyVars, chipVars, buildVars
<1>1. CASE SendTake
  <2>1. /\ sending' \in Work /\ NoneOrHeard(sending') /\ asic_queue' \in Seq(Work)
        /\ \A i \in 1 .. Len(asic_queue') : NoneOrHeard(asic_queue'[i])
    BY <1>1, WorkNow, QueueMoves DEF SendTake
  <2> QED  BY <1>1, <2>1, WorkNow, WorkMoves DEF SendTake
<1>2. CASE SendPlace
  BY <1>2, WorkNow, WorkMoves DEF SendPlace
<1> QED  BY <1>1, <1>2 DEF Sender

-----------------------------------------------------------------------------
(* The device starts again as it started first. *)

LEMMA PanicKeeps ==
  ASSUME AInv, Panic
  PROVE  AInv'
<1>1. /\ pc'["stratum"] = "top" /\ pc'["result"] = "idle"
      /\ pc' \in [Tasks -> StratumPlaces \cup ResultPlaces]
      /\ pc'["stratum"] \in StratumPlaces /\ pc'["result"] \in ResultPlaces
  BY DEF Panic, Tasks, StratumPlaces, ResultPlaces
<1>2. TypeOK'
  <2>1. BuilderAt("wait") \in [at : {"wait", "check", "build", "put", "purge"}, job : Work]
    BY Builders
  <2>2. NoShare \in [ses : Handles \cup {NoHandle}, user : Endpoints,
                     handle : Handles \cup {NoHandle}]
    BY DEF NoShare, Endpoints
  <2>3. <<>> \in Seq(Endpoints) /\ Len(<<>>) <= MaxSessions
    BY Constants
  <2>4. 0 \in 0 .. MaxGen /\ 0 \in 0 .. MAX_RETRY_ATTEMPTS /\ 0 \in Endpoints
    BY Constants DEF Endpoints
  <2> QED  BY <1>1, <2>1, <2>2, <2>3, <2>4, Constants, EmptyQueue DEF Panic, AInv, TypeOK
<1>3. ReturnOK' /\ LinkOK' /\ LoopOK' /\ ShareOK'
  BY <1>1 DEF Panic, ReturnOK, LinkOK, NoLink, NewLink, LoopOK, Handling, CleaningFor, ShareOK,
     Cleans, NoHandle
<1>4. WorkOK'
  BY DEF Panic, WorkOK, NoneOrHeard, BuilderAt
<1> QED  BY <1>2, <1>3, <1>4 DEF AInv

LEMMA StratumKeeps ==
  ASSUME AInv, Stratum
  PROVE  AInv'
<1>1. CASE Closing("stratum")
  BY <1>1, CloseTestKeeps, DestroyKeeps, NullKeeps, CleanFlagKeeps, CleanQueueKeeps,
     CleanWorkKeeps DEF Closing
<1> QED
  BY <1>1, ChooseKeeps, ResolveFailsKeeps, DialKeeps, ConnectFailsKeeps, ConnectedKeeps,
     HelloKeeps, ReadNotifyKeeps, ReadOtherKeeps, ReadReconnectKeeps, ReadStaleKeeps,
     ReadFailsKeeps, CleanTestKeeps, NotifyTestKeeps, NotifyRoomKeeps, NotifyEnqueueKeeps,
     DownKeeps DEF Stratum

LEMMA AInvStep == AInv /\ [Next]_vars => AInv'
<1> SUFFICES ASSUME AInv, [Next]_vars PROVE AInv'
  OBVIOUS
<1>1. CASE Next
  BY <1>1, StratumKeeps, BuilderKeeps, SenderKeeps, ResultKeeps, PanicKeeps DEF Next
<1>2. CASE UNCHANGED vars
  BY <1>2, WorkNow, WorkMoves DEF vars, workVars, notifyVars, buildVars, chipVars
<1> QED  BY <1>1, <1>2

LEMMA AInvariant == Spec => []AInv
<1> QED  BY InitHolds, AInvStep, PTL DEF Spec

-----------------------------------------------------------------------------
(* What follows. *)

\* Every variable stays in the set its declaration gives it: no failed write,
\* second close or restart leaves a transport, a queue or a task in no state at all.
THEOREM PoolATypesOK == Spec => []TypeOK
<1>1. AInv => TypeOK
  BY DEF AInv
<1> QED  BY <1>1, AInvariant, PTL

\* A share written on the session of its job carries the worker of that session's
\* endpoint (asic_result_task.c chooses the name before it reads the transport):
\* the endpoint changes only where there is no transport, and a new transport is
\* not that of any job.
THEOREM PoolAShareWorker == Spec => []ShareUnderAuthorizedWorker
<1>1. AInv => ShareUnderAuthorizedWorker
  BY DEF AInv, ShareOK, ShareUnderAuthorizedWorker, At
<1> QED  BY <1>1, AInvariant, PTL

\* Only the look at isconnected, and a restart, can take the builder's notify.
LEMMA HeldStays ==
  ASSUME AInv, Next, ~BuildWait, ~BuildCheck, ~Panic, held # None
  PROVE  held' # None
<1>1. held \in Work /\ NoneOrHeard(held)
  BY WorkNow
<1>2. Late(held) # None
  BY <1>1, LateKeeps
<1>3. CASE Stratum
  <2>1. CASE CleanTest
    BY <2>1, <1>2 DEF CleanTest, MarkInHand, buildVars
  <2>2. CASE CleanWork("stratum")
    BY <2>2, <1>2 DEF CleanWork, MarkInHand, buildVars
  <2> QED
    BY <1>3, <2>1, <2>2
       DEF Stratum, Closing, Choose, ResolveFails, Dial, ConnectFails, Connected, Hello,
           ReadNotify, ReadOther, ReadReconnect, ReadStale, ReadFails, LineOfSession, LineComes,
           NotifyTest, NotifyRoom, NotifyEnqueue, Down, CloseTest, Destroy, Null, CleanFlag,
           CleanQueue, workVars, buildVars
<1>4. CASE Builder \/ Sender
  BY <1>4 DEF Builder, BuildJob, BuildPut, BuildLeave, BuildPurge, Sender, SendTake, SendPlace,
     buildVars
<1>5. CASE Result
  BY <1>5 DEF Result, ResultTake, ResultUser, ResultTest, ResultSubmit, ResultWritten, Closing,
     CloseTest, Destroy, Null, CleanFlag, CleanQueue, CleanWork, workVars, buildVars
<1> QED  BY <1>3, <1>4, <1>5 DEF Next

\* "a fresh dequeue above can never be discarded by this" (create_jobs_task.c:184):
\* a session counts as up from its first line until stratum_task has left its loop,
\* so that the builder, which reads isconnected under no lock, never finds it down
\* while it holds a notify of the session being read.
THEOREM PoolAKeepsLiveNotify == Spec => LiveNotifyNotDiscarded
<1>1. ASSUME AInv, [Next]_vars, held # None, held' = None
      PROVE  ~InLoop(held.ses) \/ Restarts
  <2>1. CASE BuildWait
    <3>1. /\ stratum_queue # <<>> /\ held' = Head(stratum_queue)
      BY <1>1, <2>1 DEF BuildWait
    <3>2. Heard(held')
      BY <1>1, <3>1, WorkNow, QueueMoves
    <3> QED  BY <1>1, <3>2, Constants DEF Heard
  <2>2. CASE BuildCheck
    <3>1. ~isconnected /\ Heard(held) /\ ~Handling
      BY <1>1, <2>2 DEF BuildCheck, HeldIfUp, AInv, WorkOK, NoneOrHeard, LoopOK
    <3>2. ASSUME pc["stratum"] = "read"
          PROVE  rx # held.ses
      BY <1>1, <3>1, <3>2, Constants DEF AInv, LoopOK, TypeOK, Heard, Unheard
    <3> QED  BY <3>1, <3>2 DEF InLoop, Handling, CleaningFor, Cleans
  <2>3. CASE Panic
    BY <2>3 DEF Panic, Restarts
  <2>4. CASE UNCHANGED vars
    BY <1>1, <2>4 DEF vars, workVars, buildVars
  <2> QED  BY <1>1, <2>1, <2>2, <2>3, <2>4, HeldStays
<1>2. AInv /\ [Next]_vars
        => [held # None /\ held' = None => ~InLoop(held.ses) \/ Restarts]_vars
  BY <1>1
<1> QED  BY <1>2, AInvariant, PTL DEF Spec, LiveNotifyNotDiscarded

-----------------------------------------------------------------------------
(* Cleaned work: the second invariant, on top of AInv. *)

\* No work of a generation that was cleaned is anywhere, unless it was in a task's
\* hands when it was; and when stratum_task cleans the ASIC queue and the slot
\* nothing has come to the notify queue, which it alone fills, since it emptied it.
Spared(j) == j = None \/ j.late \/ cleaned < j.gen
CleanOK ==
    /\ cleaned < gen \/ (cleaned = 0 /\ gen = 0)
    /\ pc["stratum"] = "clean_work" => stratum_queue = <<>>
    /\ stale = None \/ stale.late
    /\ \A i \in 1 .. Len(stratum_queue) : Spared(stratum_queue[i])
    /\ \A i \in 1 .. Len(asic_queue) : Spared(asic_queue[i])
    /\ Spared(held) /\ Spared(builder.job) /\ Spared(sending) /\ Spared(slot)

LEMMA CleanInit == Init => CleanOK
  BY Constants DEF Init, CleanOK, Spared, BuilderAt

\* A step that leaves all work where it is, and does not get to the last cleaning.
LEMMA CleanStays ==
  ASSUME TypeOK, CleanOK,
         UNCHANGED <<stratum_queue, stale, builder, held, asic_queue, sending, slot, cleaned>>,
         gen' \in {gen, gen + 1},
         pc'["stratum"] = "clean_work" => pc["stratum"] = "clean_work"
  PROVE  CleanOK'
<1>1. cleaned \in Nat /\ gen \in Nat
  BY Constants DEF TypeOK
<1>2. cleaned' < gen' \/ (cleaned' = 0 /\ gen' = 0)
  BY <1>1 DEF CleanOK
<1> QED  BY <1>2 DEF CleanOK, Spared

\* A step that moves work, cleans none and makes none old.
LEMMA CleanMoves ==
  ASSUME CleanOK, UNCHANGED <<gen, cleaned, stale>>,
         \/ pc'["stratum"] = pc["stratum"] /\ (stratum_queue = <<>> => stratum_queue' = <<>>)
         \/ pc'["stratum"] # "clean_work"
         \/ stratum_queue' = <<>>,
         \A i \in 1 .. Len(stratum_queue') : Spared(stratum_queue'[i]),
         \A i \in 1 .. Len(asic_queue') : Spared(asic_queue'[i]),
         Spared(held'), Spared(builder'.job), Spared(sending'), Spared(slot')
  PROVE  CleanOK'
  BY DEF CleanOK, Spared

\* What CleanOK says of work, in the form in which its steps are given to CleanMoves.
LEMMA SparedNow ==
  ASSUME CleanOK
  PROVE  /\ \A i \in 1 .. Len(stratum_queue) : Spared(stratum_queue[i])
         /\ \A i \in 1 .. Len(asic_queue) : Spared(asic_queue[i])
         /\ Spared(held) /\ Spared(builder.job) /\ Spared(sending) /\ Spared(slot)
         /\ Spared(None)
         /\ Len(<<>>) = 0
  BY DEF CleanOK, Spared

\* With the flag set, work is spared whatever is cleaned.
LEMMA LateIsSpared ==
  ASSUME NEW j \in Work
  PROVE  Late(j) = None \/ Late(j).late
  BY DEF Late, Work

\* The dial, the handshake and the lines move no work.
LEMMA QuietClean ==
  ASSUME AInv, CleanOK,
         \/ Choose \/ ResolveFails \/ Dial \/ ConnectFails \/ Connected \/ Hello
         \/ ReadNotify \/ ReadOther \/ ReadStale \/ ReadFails \/ NotifyTest \/ Down
         \/ CloseTest("stratum") \/ Destroy("stratum") \/ Null("stratum")
         \/ CleanFlag("stratum")
  PROVE  CleanOK'
<1>1. /\ UNCHANGED <<stratum_queue, stale, builder, held, asic_queue, sending, slot, cleaned>>
      /\ gen' \in {gen, gen + 1}
  BY DEF Choose, ResolveFails, Dial, ConnectFails, Connected, Hello, ReadNotify, ReadOther,
     ReadStale, ReadFails, LineOfSession, LineComes, NotifyTest, Down, CloseTest, Destroy, Null,
     CleanFlag, workVars, notifyVars, buildVars, chipVars
<1>2. pc'["stratum"] # "clean_work"
  <2>1. pc \in [Tasks -> StratumPlaces \cup ResultPlaces] /\ "stratum" \in Tasks
    BY DEF AInv, TypeOK, Tasks
  <2>2. PICK there \in StratumPlaces : pc'["stratum"] = there /\ there # "clean_work"
    BY <2>1
       DEF Choose, ResolveFails, Dial, ConnectFails, Connected, Hello, ReadNotify, ReadOther,
           ReadStale, ReadFails, LineOfSession, LineComes, NotifyTest, RoomMade, Down, CloseTest,
           Destroy, Null, CleanFlag, Return, Step, After, Goto, At, AInv, ReturnOK,
           StratumPlaces, Closes
  <2> QED  BY <2>2
<1> QED  BY <1>1, <1>2, CleanStays DEF AInv

\* clean_jobs, whether it is acted on or skipped, and the last step of a cleaning:
\* from here on the work of earlier generations counts as cleaned.
LEMMA CleanTestClean ==
  ASSUME AInv, CleanOK, CleanTest
  PROVE  CleanOK'
<1>1. /\ pc["stratum"] = "clean_test" /\ gen > 0 /\ gen \in Nat /\ stale' = stale /\ gen' = gen
      /\ stratum_queue' = stratum_queue
  BY Constants DEF CleanTest, At, AInv, TypeOK, LoopOK, notifyVars
<1>2. CASE Goto("stratum", "clean_flag") /\ UNCHANGED <<buildVars, chipVars, cleaned>>
  <2>1. pc'["stratum"] = "clean_flag"
    BY <1>2, Going DEF AInv, StratumPlaces, Closes
  <2> QED  BY <1>1, <1>2, <2>1, CleanStays DEF AInv, buildVars, chipVars
<1>3. CASE /\ stratum_queue = <<>> /\ asic_queue = <<>> /\ Goto("stratum", "notify")
           /\ MarkInHand /\ slot' = Late(slot) /\ UNCHANGED asic_queue
  <2>1. pc'["stratum"] = "notify"
    BY <1>3, Going DEF AInv, StratumPlaces
  <2>2. /\ cleaned' = gen - 1 /\ held' = Late(held) /\ sending' = Late(sending)
        /\ builder' = [builder EXCEPT !.job = Late(builder.job)]
        /\ held \in Work /\ sending \in Work /\ slot \in Work /\ builder.job \in Work
        /\ builder \in [at : {"wait", "check", "build", "put", "purge"}, job : Work]
    BY <1>3, WorkNow DEF MarkInHand
  <2>3. builder'.job = Late(builder.job)
    BY <2>2
  <2>4. Spared(held)' /\ Spared(sending)' /\ Spared(slot)' /\ Spared(builder.job)'
    BY <1>3, <2>2, <2>3, LateIsSpared DEF Spared
  <2> QED  BY <1>1, <1>3, <2>1, <2>2, <2>4 DEF CleanOK
<1> QED  BY <1>2, <1>3 DEF CleanTest

LEMMA CleanWorkClean ==
  ASSUME AInv, CleanOK, CleanWork("stratum")
  PROVE  CleanOK'
<1>1. /\ pc["stratum"] = "clean_work" /\ asic_queue' = <<>> /\ slot' = None
      /\ Return("stratum") /\ UNCHANGED <<stratum_queue, stale, gen>>
  BY DEF CleanWork, At, SlotCleaned, notifyVars
<1>2. ret \in {"hello", "notify", "down"} /\ pc'["stratum"] = ret
  BY <1>1, Returning DEF AInv, ReturnOK, Cleans, Closes
<1>3. CASE ret = "down"
  <2>1. UNCHANGED <<buildVars, sending, cleaned>>
    BY <1>3 DEF CleanWork
  <2> QED  BY <1>1, <1>2, <2>1, SparedNow, CleanMoves DEF buildVars
<1>4. CASE ret # "down"
  <2>1. /\ cleaned' = gen - 1 /\ held' = Late(held) /\ sending' = Late(sending)
        /\ builder' = [builder EXCEPT !.job = Late(builder.job)]
        /\ held \in Work /\ sending \in Work /\ builder.job \in Work
        /\ builder \in [at : {"wait", "check", "build", "put", "purge"}, job : Work]
    BY <1>4, WorkNow DEF CleanWork, MarkInHand
  <2>2. gen > 0 /\ gen \in Nat
    BY <1>1, <1>2, <1>4, Constants DEF AInv, TypeOK, LoopOK, CleaningFor, Cleans
  <2>3. builder'.job = Late(builder.job)
    BY <2>1
  <2>4. Spared(held)' /\ Spared(sending)' /\ Spared(slot)' /\ Spared(builder.job)'
    BY <1>1, <2>1, <2>3, LateIsSpared DEF Spared
  <2>5. stratum_queue' = <<>>
    BY <1>1 DEF CleanOK
  <2> QED  BY <1>1, <1>2, <2>1, <2>2, <2>4, <2>5 DEF CleanOK
<1> QED  BY <1>3, <1>4

\* The other steps of stratum_task: what it puts in the queue is of the present
\* generation, or was left in the receive buffer.
LEMMA StratumClean ==
  ASSUME AInv, CleanOK, Stratum
  PROVE  CleanOK'
<1>1. CASE ReadReconnect
  <2>1. /\ Goto("stratum", "close")
        /\ stale' \in {None, [gen |-> gen, ses |-> rx, late |-> TRUE]}
        /\ UNCHANGED <<stratum_queue, builder, held, asic_queue, sending, slot, gen, cleaned>>
    BY <1>1 DEF ReadReconnect, LineOfSession, LineComes, buildVars, chipVars
  <2>2. pc'["stratum"] = "close"
    BY <2>1, Going DEF AInv, StratumPlaces, Closes
  <2>3. stale' = None \/ stale'.late
    BY <2>1
  <2> QED  BY <2>1, <2>2, <2>3 DEF CleanOK, Spared
<1>2. CASE NotifyRoom
  <2>1. /\ Goto("stratum", "enqueue")
        /\ stratum_queue' = IF stratum_queue = <<>> THEN <<>> ELSE Tail(stratum_queue)
        /\ UNCHANGED <<stale, builder, held, asic_queue, sending, slot, gen, cleaned>>
    BY <1>2 DEF NotifyRoom, buildVars, chipVars
  <2>2. pc'["stratum"] = "enqueue"
    BY <2>1, Going DEF AInv, StratumPlaces
  <2>3. \A i \in 1 .. Len(stratum_queue') : Spared(stratum_queue'[i])
    BY <2>1, WorkNow, QueueMoves, SparedNow
  <2> QED  BY <2>1, <2>2, <2>3, SparedNow, CleanMoves
<1>3. CASE NotifyEnqueue
  <2> DEFINE new == IF stale = None THEN [gen |-> gen, ses |-> rx, late |-> FALSE] ELSE stale
  <2>1. /\ pc["stratum"] = "enqueue" /\ Goto("stratum", "read") /\ stale' = None
        /\ stratum_queue' = Append(stratum_queue, new)
        /\ UNCHANGED <<builder, held, asic_queue, sending, slot, gen, cleaned>>
    BY <1>3 DEF NotifyEnqueue, At, buildVars, chipVars
  <2>2. pc'["stratum"] = "read"
    BY <2>1, Going DEF AInv, StratumPlaces
  <2>3. new \in Work
    BY DEF AInv, TypeOK, Work
  <2>4. Spared(new)
    <3>1. CASE stale = None
      <4>1. gen > 0
        BY <2>1, <3>1, Constants DEF AInv, TypeOK, LoopOK, Handling
      <4> QED  BY <3>1, <4>1 DEF CleanOK, Spared
    <3>2. CASE stale # None
      BY <3>2 DEF CleanOK, Spared
    <3> QED  BY <3>1, <3>2
  <2>5. \A i \in 1 .. Len(stratum_queue') : Spared(stratum_queue'[i])
    BY <2>1, <2>3, <2>4, WorkNow, QueueMoves, SparedNow
  <2> QED  BY <2>1, <2>2, <2>5 DEF CleanOK, Spared
<1>4. CASE CleanQueue("stratum")
  BY <1>4, SparedNow, CleanMoves DEF CleanQueue, buildVars, chipVars
<1> QED
  BY <1>1, <1>2, <1>3, <1>4, QuietClean, CleanTestClean, CleanWorkClean DEF Stratum, Closing

\* The result task cleans pool A's work too, and marks none: it makes none older.
LEMMA ResultClean ==
  ASSUME AInv, CleanOK, Result
  PROVE  CleanOK'
<1>1. pc'["stratum"] = pc["stratum"] /\ UNCHANGED <<stale, held, builder, sending, gen, cleaned>>
  BY DEF Result, ResultTake, ResultUser, ResultTest, ResultSubmit, ResultWritten, Closing,
     CloseTest, Destroy, Null, CleanFlag, CleanQueue, CleanWork, Return, Step, Goto, After,
     AInv, TypeOK, Tasks, workVars, notifyVars, buildVars, chipVars
<1>2. /\ stratum_queue' \in {stratum_queue, <<>>}
      /\ asic_queue' \in {asic_queue, <<>>}
      /\ slot' \in {slot, None}
  BY DEF Result, ResultTake, ResultUser, ResultTest, ResultSubmit, ResultWritten, Closing,
     CloseTest, Destroy, Null, CleanFlag, CleanQueue, CleanWork, SlotCleaned, workVars,
     notifyVars, buildVars, chipVars
<1> QED  BY <1>1, <1>2, SparedNow, CleanMoves

LEMMA BuilderClean ==
  ASSUME AInv, CleanOK, Builder \/ Sender
  PROVE  CleanOK'
<1> USE DEF notifyVars, chipVars, buildVars
<1>1. CASE BuildWait
  <2>1. /\ builder' = BuilderAt("check")
        /\ UNCHANGED <<pc, stale, asic_queue, sending, slot, gen, cleaned>>
    BY <1>1 DEF BuildWait
  <2>2. CASE stratum_queue = <<>>
    <3>1. UNCHANGED <<stratum_queue, held>>
      BY <1>1, <2>2 DEF BuildWait
    <3> QED  BY <2>1, <3>1, Builders, SparedNow, CleanMoves
  <2>3. CASE stratum_queue # <<>>
    <3>1. held' = Head(stratum_queue) /\ stratum_queue' = Tail(stratum_queue)
      BY <1>1, <2>3 DEF BuildWait
    <3>2. Spared(held') /\ \A i \in 1 .. Len(stratum_queue') : Spared(stratum_queue'[i])
      BY <2>3, <3>1, WorkNow, QueueMoves, SparedNow
    <3> QED  BY <2>1, <2>3, <3>2, Builders, SparedNow, CleanMoves
  <2> QED  BY <2>2, <2>3
<1>2. CASE BuildCheck
  <2>1. held' \in {held, None}
    BY <1>2 DEF BuildCheck, HeldIfUp
  <2> QED  BY <1>2, <2>1, Builders, SparedNow, CleanMoves DEF BuildCheck
<1>3. CASE BuildJob
  BY <1>3, SparedNow, CleanMoves DEF BuildJob
<1>4. CASE BuildPut
  <2>1. asic_queue' = Append(asic_queue, builder.job) /\ builder.job \in Work
    BY <1>4, WorkNow DEF BuildPut
  <2>2. \A i \in 1 .. Len(asic_queue') : Spared(asic_queue'[i])
    BY <2>1, WorkNow, QueueMoves, SparedNow
  <2> QED  BY <1>4, <2>2, Builders, SparedNow, CleanMoves DEF BuildPut
<1>5. CASE BuildLeave
  BY <1>5, Builders, SparedNow, CleanMoves DEF BuildLeave
<1>6. CASE BuildPurge
  BY <1>6, Builders, SparedNow, CleanMoves DEF BuildPurge
<1>7. CASE SendTake
  <2>1. Spared(sending') /\ \A i \in 1 .. Len(asic_queue') : Spared(asic_queue'[i])
    BY <1>7, WorkNow, QueueMoves, SparedNow DEF SendTake
  <2> QED  BY <1>7, <2>1, SparedNow, CleanMoves DEF SendTake
<1>8. CASE SendPlace
  BY <1>8, SparedNow, CleanMoves DEF SendPlace
<1> QED  BY <1>1, <1>2, <1>3, <1>4, <1>5, <1>6, <1>7, <1>8 DEF Builder, Sender

LEMMA CleanStep == AInv /\ CleanOK /\ [Next]_vars => CleanOK'
<1> SUFFICES ASSUME AInv, CleanOK, [Next]_vars PROVE CleanOK'
  OBVIOUS
<1>1. CASE Panic
  <2>1. pc'["stratum"] = "top"
    BY <1>1 DEF Panic, Tasks
  <2> QED  BY <1>1, <2>1 DEF Panic, CleanOK, Spared, BuilderAt
<1>2. CASE UNCHANGED vars
  BY <1>2 DEF vars, workVars, notifyVars, buildVars, chipVars, CleanOK, Spared
<1> QED  BY <1>1, <1>2, StratumClean, BuilderClean, ResultClean DEF Next

\* Work that pool A has cleaned, by clean_jobs or by a new session, is mined on only
\* when a task had it in hand at that moment, it was still in the receive buffer, or
\* the clean_jobs found both queues empty: cleanQueue (stratum_task.c) empties the
\* two queues and the slots one after the other, as the result task may do at the
\* same time, and nothing old gets past it in between.
THEOREM PoolACleansWork == Spec => []CleanedWorkWasInHand
<1>1. Spec => [](AInv /\ CleanOK)
  BY InitHolds, AInvStep, CleanInit, CleanStep, PTL DEF Spec
<1>2. AInv /\ CleanOK => CleanedWorkWasInHand
  <2> SUFFICES ASSUME AInv, CleanOK, NEW j \in Queued \cup {slot}, j # None, j.gen <= cleaned
               PROVE  j.late
    BY DEF CleanedWorkWasInHand
  <2>1. Spared(j) /\ j \in Work
    BY WorkNow, SparedNow DEF Queued
  <2> QED  BY <2>1, Constants DEF Spared, Work, AInv, TypeOK
<1> QED  BY <1>1, <1>2, PTL
=============================================================================
