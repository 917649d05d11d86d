------------------------ MODULE BRPublishedTxProofs ------------------------
(***************************************************************************)
(* Publishing transactions, for any peers, transactions and calls: types,  *)
(* the relay lists, who may use the copies of a transaction, whom its      *)
(* publisher hears from, and that it all implements Publication.           *)
(*                                                                         *)
(* Every step of the manager is one of six kinds (Quiet, Accept, Refuse,   *)
(* Confirm, Cancel, Transmit), which say all that the later invariants     *)
(* need to know of it; they are proved to be kept kind by kind.            *)
(***************************************************************************)
EXTENDS BRPublishedTx, SequenceTheorems, TLAPS

USE PublishAssumption

-----------------------------------------------------------------------------
(* Steps of a peer's context. *)

\* A new context is one.
LEMMA FreshType == Fresh \in Contexts /\ Fresh.sending = NoCall
  BY DEF Fresh, Contexts, Pongs

\* Every function of a context yields one, and leaves alone what the thread sends.
LEMMA SendPingType ==
    ASSUME NEW c \in Contexts, NEW cb \in Pongs
    PROVE  SendPing(c, cb) \in Contexts /\ SendPing(c, cb).sending = c.sending
<1>1. Append(c.pongs, cb) \in Seq(Pongs)
  BY DEF Contexts
<1> QED BY <1>1 DEF SendPing, Contexts

LEMMA LoadFilterType ==
    ASSUME NEW c \in Contexts
    PROVE  LoadFilter(c) \in Contexts /\ LoadFilter(c).sending = c.sending
  BY DEF LoadFilter, Contexts

LEMMA SendInvType ==
    ASSUME NEW c \in Contexts, NEW H \in SUBSET Tx
    PROVE  SendInv(c, H) \in Contexts /\ SendInv(c, H).sending = c.sending
  BY DEF SendInv, Contexts

LEMMA SendMempoolType ==
    ASSUME NEW c \in Contexts, NEW H \in SUBSET Tx
    PROVE  SendMempool(c, H) \in Contexts /\ SendMempool(c, H).sending = c.sending
<1> DEFINE d == [c EXCEPT !.sentMempool = TRUE, !.known = @ \cup H]
<1>1. d \in Contexts /\ d.sending = c.sending
  BY DEF Contexts
<1>2. SendPing(d, "mempoolDone") \in Contexts /\ SendPing(d, "mempoolDone").sending = d.sending
  BY <1>1, SendPingType DEF Pongs
<1> QED BY <1>1, <1>2 DEF SendMempool

LEMMA TimerType ==
    ASSUME NEW c \in Contexts, NEW b \in BOOLEAN
    PROVE  [c EXCEPT !.timer = b] \in Contexts /\ [c EXCEPT !.timer = b].sending = c.sending
  BY DEF Contexts

LEMMA SendingType ==
    ASSUME NEW c \in Contexts, NEW s \in Calls \cup {Relayed, NoCall}
    PROVE  [c EXCEPT !.sending = s] \in Contexts /\ [c EXCEPT !.sending = s].sending = s
  BY DEF Contexts

\* BRPeerScheduleDisconnect.
LEMMA KeepTimerType ==
    ASSUME NEW c \in Contexts, NEW reason
    PROVE  KeepTimer(c, reason) \in Contexts /\ KeepTimer(c, reason).sending = c.sending
<1> DEFINE b == c.timer \/ reason
<1>1. b \in BOOLEAN
  OBVIOUS
<1> HIDE DEF b
<1>2. KeepTimer(c, reason) = [c EXCEPT !.timer = b]
  BY DEF KeepTimer, b
<1> QED BY <1>1, <1>2, TimerType

\* _BRPeerManagerPublishPendingTx.
LEMMA PublishPendingType ==
    ASSUME NEW c \in Contexts, NEW pub, DOMAIN pub \subseteq Tx
    PROVE  PublishPending(pub, c) \in Contexts /\ PublishPending(pub, c).sending = c.sending
<1> DEFINE reason == Pending(pub) # {}
<1> HIDE DEF reason
<1>1. KeepTimer(c, reason) \in Contexts /\ KeepTimer(c, reason).sending = c.sending
  BY KeepTimerType
<1>2. PublishPending(pub, c) = SendInv(KeepTimer(c, reason), DOMAIN pub)
  BY DEF PublishPending, reason
<1> QED BY <1>1, <1>2, SendInvType

\* The publish timeout is cancelled, or not.
LEMMA CancelTimerType ==
    ASSUME NEW c \in Contexts, NEW p, NEW t
    PROVE  CancelTimer(p, t, c) \in Contexts /\ CancelTimer(p, t, c).sending = c.sending
<1> DEFINE b == c.timer /\ (Pending(published) \ {t} # {} \/ (manager.syncing /\ p = manager.downloadPeer))
<1>1. b \in BOOLEAN
  OBVIOUS
<1> HIDE DEF b
<1>2. CancelTimer(p, t, c) = [c EXCEPT !.timer = b]
  BY DEF CancelTimer, b
<1> QED BY <1>1, <1>2, TimerType

-----------------------------------------------------------------------------
(* Types. *)

\* The wallet has a copy of exactly the transactions it knows.
KnownHasCopy == \A t \in Tx : InAllTx(t) <=> copy[t] # NoCall

TypeInv == TypeOK /\ KnownHasCopy

\* The initial state.
LEMMA InitType == Init => TypeInv
<1> SUFFICES ASSUME Init PROVE TypeInv
  OBVIOUS
<1>1. told \in [Calls -> Seq(Errors)]
  BY DEF Init
<1>2. peer \in [Peers -> Contexts]
  BY FreshType DEF Init
<1>3. Listed = {}
  BY DEF Init, Listed
<1>4. manager \in Managers
  BY DEF Init, Managers
<1>5. published \in [Listed -> Entries]
  BY <1>3 DEF Init
<1> QED BY <1>1, <1>2, <1>3, <1>4, <1>5 DEF Init, TypeOK, TypeInv, KnownHasCopy, InAllTx, WalletState, PeerStatus

\* _BRPeerManagerAddTxToPublishList adds the transaction and unconfirmed ones of the wallet.
LEMMA AddedType ==
    ASSUME NEW t \in Tx
    PROVE  Added(t) \subseteq Tx /\ Added(t) \subseteq {t} \cup (Unconfirmed \ Listed) /\ t \in Added(t)
<1> DEFINE S == {t} \cup (Unconfirmed \ Listed)
<1>1. S \in SUBSET Tx
  BY DEF Unconfirmed
<1>2. t \in S /\ \A v \in S : Inputs[v] \cap (Unconfirmed \ Listed) \subseteq S
  OBVIOUS
<1> QED BY <1>1, <1>2 DEF Added

\* The publish list after _BRPeerManagerAddTxToPublishList.
LEMMA AddType ==
    ASSUME TypeInv, NEW t \in Tx, NEW c \in Calls \cup {Relayed}, NEW cb \in Calls \cup {NoCall},
           NEW pub, pub = AddTxToPublishList(t, c, cb)
    PROVE  DOMAIN pub \subseteq Tx /\ pub \in [DOMAIN pub -> Entries]
<1>1. CASE t \in Listed
  BY <1>1 DEF AddTxToPublishList, TypeInv, TypeOK, Listed
<1>2. CASE t \notin Listed
  <2> DEFINE D == Listed \cup Added(t)
             e(u) == IF u \in Listed THEN published[u]
                     ELSE IF u = t THEN [copy |-> c, callback |-> cb]
                     ELSE [copy |-> copy[u], callback |-> NoCall]
  <2>1. pub = [u \in D |-> e(u)]
    BY <1>2 DEF AddTxToPublishList
  <2>2. D \subseteq Tx
    BY AddedType DEF TypeInv, TypeOK
  <2>3. ASSUME NEW u \in D PROVE e(u) \in Entries
    <3>1. CASE u \in Listed
      BY <3>1 DEF TypeInv, TypeOK
    <3>2. CASE u = t
      BY <3>2, <1>2 DEF Entries
    <3>3. CASE u \notin Listed /\ u # t
      <4>1. u \in Unconfirmed
        BY <3>3, AddedType
      <4>2. copy[u] \in Calls \cup {Relayed}
        BY <4>1 DEF Unconfirmed, TypeInv, TypeOK, KnownHasCopy, InAllTx
      <4> QED BY <3>3, <4>2 DEF Entries
    <3> QED BY <3>1, <3>2, <3>3
  <2> HIDE DEF e
  <2> QED BY <2>1, <2>2, <2>3
<1> QED BY <1>1, <1>2

\* The rest of TypeInv when only the publish list, the contexts and the calls change.
LEMMA PublishType ==
    ASSUME TypeInv, NEW c \in Calls, NEW k \in Calls, DoPublish(c, k),
           held' \in Calls \cup {NoCall}, using' \in [Calls -> Calls \cup {NoCall}]
    PROVE  TypeInv' /\ \A p \in Peers : peer'[p].sending = peer[p].sending
<1> DEFINE pub == AddTxToPublishList(TxOf[k], k, c)
           to == {p \in Peers : IsConnected(p) /\ (\/ p # manager.downloadPeer
                                                \/ Cardinality({q \in Peers : IsConnected(q)}) = 1)}
<1>1. DOMAIN pub \subseteq Tx /\ pub \in [DOMAIN pub -> Entries]
  BY AddType
<1>2. ASSUME NEW p \in Peers
      PROVE  LET d == SendPing(PublishPending(pub, peer[p]), "invDone")
             IN  d \in Contexts /\ d.sending = peer[p].sending
  <2>1. peer[p] \in Contexts
    BY DEF TypeInv, TypeOK
  <2> HIDE DEF pub
  <2>2. PublishPending(pub, peer[p]) \in Contexts /\ PublishPending(pub, peer[p]).sending = peer[p].sending
    BY <1>1, <2>1, PublishPendingType
  <2> QED BY <2>2, SendPingType DEF Pongs
<1>3. published' = pub /\ call' = [call EXCEPT ![c] = "published"]
      /\ UNCHANGED <<txRelays, txRequests, manager, walletVars, ringing, told, freed, netVars, status, events>>
      /\ peer' = [p \in Peers |-> IF p \in to THEN SendPing(PublishPending(pub, peer[p]), "invDone")
                                    ELSE peer[p]]
  BY DEF DoPublish
<1> HIDE DEF pub, to
<1>4. peer' \in [Peers -> Contexts] /\ \A p \in Peers : peer'[p].sending = peer[p].sending
  BY <1>2, <1>3 DEF TypeInv, TypeOK
<1> QED BY <1>1, <1>3, <1>4 DEF TypeInv, TypeOK, KnownHasCopy, Listed, InAllTx, walletVars, netVars

\* SendViewController.sendTapped.
LEMMA TappedType ==
    ASSUME TypeInv, NEW c \in Calls, NEW k \in Calls, SendTapped(c, k)
    PROVE  held' \in Calls \cup {NoCall} /\ using' \in [Calls -> Calls \cup {NoCall}]
  BY DEF TypeInv, TypeOK, SendTapped

\* BRPeerManagerPublishTx without a connection.
LEMMA CallsType ==
    ASSUME TypeInv, NEW c \in Calls, NEW k \in Calls,
           PublishTxNotConnected(c, k) \/ PublishTxCheck(c, k)
    PROVE  TypeInv'
<1>1. SendTapped(c, k)
  BY DEF PublishTxNotConnected, PublishTxCheck
<1>2. held' \in Calls \cup {NoCall} /\ using' \in [Calls -> Calls \cup {NoCall}]
  BY <1>1, TappedType
<1>3. told[c] \in Seq(Errors) /\ "ENOTCONN" \in Errors /\ told \in [Calls -> Seq(Errors)]
  BY DEF TypeInv, TypeOK, Errors
<1>4. Append(told[c], "ENOTCONN") \in Seq(Errors)
  BY <1>3
<1>5. told' \in [Calls -> Seq(Errors)]
  BY <1>3, <1>4 DEF PublishTxNotConnected, PublishTxCheck
<1>6. call' \in [Calls -> {"idle", "checked", "published"}] /\ freed' \subseteq Calls \cup {Relayed}
  BY DEF PublishTxNotConnected, PublishTxCheck, TypeInv, TypeOK
<1>7. UNCHANGED <<mgrVars, walletVars, ringing, netVars, status, peer, events>>
  BY DEF PublishTxNotConnected, PublishTxCheck
<1> QED BY <1>2, <1>5, <1>6, <1>7 DEF TypeInv, TypeOK, KnownHasCopy, Listed, InAllTx, walletVars, netVars, mgrVars

\* A publisher is called back.
LEMMA CallbackType ==
    ASSUME TypeInv, NEW r \in ringing, TxCallback(r)
    PROVE  TypeInv'
<1>1. r.call \in Calls /\ r.error \in Errors /\ told \in [Calls -> Seq(Errors)]
  BY DEF TypeInv, TypeOK
<1>2. Append(told[r.call], r.error) \in Seq(Errors)
  BY <1>1
<1>3. told' \in [Calls -> Seq(Errors)]
  BY <1>1, <1>2 DEF TxCallback
<1>4. held' \in Calls \cup {NoCall} /\ ringing' \subseteq [call : Calls, error : Errors]
  BY DEF TxCallback, TypeInv, TypeOK
<1>5. UNCHANGED <<mgrVars, walletVars, using, call, freed, netVars, status, peer, events>>
  BY DEF TxCallback
<1> QED BY <1>3, <1>4, <1>5 DEF TypeInv, TypeOK, KnownHasCopy, Listed, InAllTx, walletVars, netVars, mgrVars

\* Only the callback of t changes.
LEMMA TakeCallbackType ==
    ASSUME TypeInv, NEW t \in Tx, NEW pub, pub = TakeCallback(published, t)
    PROVE  /\ DOMAIN pub = Listed /\ pub \in [Listed -> Entries]
           /\ \A u \in Listed :
                 /\ pub[u].copy = published[u].copy
                 /\ pub[u].callback = IF u = t THEN NoCall ELSE published[u].callback
<1>1. published \in [Listed -> Entries] /\ Listed = DOMAIN published
  BY DEF TypeInv, TypeOK, Listed
<1>2. CASE t \notin Listed
  BY <1>1, <1>2 DEF TakeCallback
<1>3. CASE t \in Listed
  <2> DEFINE e == [published[t] EXCEPT !.callback = NoCall]
  <2>1. e \in Entries /\ e.copy = published[t].copy /\ e.callback = NoCall
    BY <1>1, <1>3 DEF Entries
  <2>2. pub = [published EXCEPT ![t] = e]
    BY <1>1, <1>3 DEF TakeCallback
  <2> HIDE DEF e
  <2> QED BY <1>1, <1>3, <2>1, <2>2
<1> QED BY <1>2, <1>3

\* What is to be called.
LEMMA TakenType ==
    ASSUME TypeInv, NEW t \in Tx, NEW e \in Errors
    PROVE  Taken(t, e) \subseteq [call : Calls, error : Errors]
  BY DEF Taken, Pending, TypeInv, TypeOK, Entries, Listed

\* BRWalletRegisterTransaction.
LEMMA RegisterType ==
    ASSUME TypeInv, NEW t \in Tx, NEW c \in Calls \cup {Relayed}, Register(t, c)
    PROVE  /\ wallet' \in [Tx -> WalletState]
           /\ copy' \in [Tx -> Calls \cup {Relayed, NoCall}]
           /\ KnownHasCopy'
  BY DEF Register, TypeInv, TypeOK, KnownHasCopy, InAllTx, WalletState

\* Transactions are taken off the list.
LEMMA WithoutType ==
    ASSUME TypeInv, NEW S, NEW pub, pub = Without(published, S)
    PROVE  /\ DOMAIN pub = Listed \ S /\ DOMAIN pub \subseteq Tx /\ pub \in [DOMAIN pub -> Entries]
           /\ \A t \in Listed \ S : pub[t] = published[t]
  BY DEF Without, TypeInv, TypeOK, Listed

\* The relay and request lists.
LEMMA RelaysType ==
    ASSUME NEW f \in [Tx -> SUBSET Peers], NEW t \in Tx, NEW p \in Peers
    PROVE  AddPeer(f, t, p) \in [Tx -> SUBSET Peers] /\ RemovePeer(f, t, p) \in [Tx -> SUBSET Peers]
  BY DEF AddPeer, RemovePeer

-----------------------------------------------------------------------------
(* What a step does to the publications, for every action one of these. *)

\* The wallet knows what it knew.
KnownSame == \A t \in Tx : wallet'[t] = "absent" <=> wallet[t] = "absent"

\* A thread sends what it sent, or nothing.
SendingShrinks == \A p \in Peers : peer'[p].sending \in {peer[p].sending, NoCall}

\* Nothing that a publisher could notice.
Quiet ==
    /\ KnownSame /\ SendingShrinks
    /\ UNCHANGED <<published, copy, callVars, netVars>>

\* A peer has, relays or asks for t: the wallet knows it, its publisher is to be told, and a thread
\* may send the listed copy.  What gets listed is the wallet's.
Accept(t) ==
    /\ InAllTx(t) \/ t \in Listed \/ t \in network
    /\ \A u \in Tx : wallet'[u] = "absent" <=> wallet[u] = "absent" /\ u # t
    /\ \A u \in Tx : copy'[u] # copy[u] =>
          u = t /\ ~InAllTx(t) /\ (copy'[t] = Relayed \/ (t \in Listed /\ copy'[t] = published[t].copy))
    /\ ringing' = ringing \cup Taken(t, "OK")
    /\ Listed \subseteq Listed'
    /\ \A u \in Listed :
          /\ published'[u].copy = published[u].copy
          /\ published'[u].callback = IF u = t THEN NoCall ELSE published[u].callback
    /\ \A u \in Listed' \ Listed :
          /\ published'[u].callback = NoCall
          /\ wallet'[u] # "absent"
          /\ published'[u].copy = Relayed \/ (InAllTx(u) /\ published'[u].copy = copy[u])
    /\ \A p \in Peers : \/ peer'[p].sending = peer[p].sending
                        \/ t \in Listed /\ peer'[p].sending = published[t].copy
    /\ UNCHANGED <<held, using, call, told, freed, netVars>>

\* A peer asks for t, which is not to be published any more.
Refuse(t) ==
    /\ published' = Without(published, {t})
    /\ ringing' = ringing \cup Taken(t, "EINVAL")
    /\ freed' = FreeUnlessKnown(t)
    /\ \A p \in Peers : \/ peer'[p].sending \in {peer[p].sending, NoCall}
                        \/ t \in Listed /\ InAllTx(t) /\ peer'[p].sending = published[t].copy
    /\ UNCHANGED <<wallet, copy, held, using, call, told, netVars>>

\* A block holds t.
Confirm(t) ==
    /\ t \in network
    /\ published' = Without(published, {t})
    /\ freed' = FreeUnlessKnown(t)
    /\ KnownSame /\ SendingShrinks
    /\ UNCHANGED <<copy, held, using, call, ringing, told, netVars>>

\* The pending publications S are given up.
Cancel(S, error) ==
    /\ S \subseteq Pending(published)
    /\ error \in Errors \ {"OK"}
    /\ published' = Without(published, S)
    /\ freed' = freed \cup {published[t].copy : t \in S}
    /\ ringing' = ringing \cup Cancelled(S, error)
    /\ KnownSame /\ SendingShrinks
    /\ UNCHANGED <<copy, held, using, call, told, netVars>>

\* The thread of p writes the copy it has to its socket, if that is open.
Transmit(p) ==
    LET c == peer[p].sending
    IN  /\ c # NoCall
        /\ \A r \in ringing : r.call # c
        /\ SendingShrinks
        /\ \/ UNCHANGED netVars
           \/ /\ sent' = sent \cup {c}
              /\ network' = IF c \in Calls THEN network \cup {TxOf[c]} ELSE network
        /\ UNCHANGED <<published, wallet, copy, callVars>>

\* Everything TypeInv says that these do not.
OthersTyped ==
    /\ txRelays' \in [Tx -> SUBSET Peers]
    /\ txRequests' \in [Tx -> SUBSET Peers]
    /\ invalid' \subseteq Tx
    /\ manager' \in Managers
    /\ status' \in [Peers -> PeerStatus]
    /\ peer' \in [Peers -> Contexts]
    /\ events' \in Nat

\* _peerHasTx accepts the transaction, or does nothing.
LEMMA HasTxType ==
    ASSUME TypeInv, NEW p \in Peers, NEW t \in Tx, HasTx(p, t)
    PROVE  TypeInv' /\ (Quiet \/ Accept(t))
<1> DEFINE found == InAllTx(t) \/ t \in Listed
           reason == found /\ manager.syncing /\ p = manager.downloadPeer
           d == KeepTimer(CancelTimer(p, t, peer[p]), reason)
<1>1. peer[p] \in Contexts /\ peer \in [Peers -> Contexts]
  BY DEF TypeInv, TypeOK
<1>3. peer' = [peer EXCEPT ![p] = d]
  BY Zenon DEF HasTx
<1> HIDE DEF reason
<1>2. d \in Contexts /\ d.sending = peer[p].sending
  BY <1>1, CancelTimerType, KeepTimerType
<1> HIDE DEF d
<1>4. peer' \in [Peers -> Contexts] /\ \A q \in Peers : peer'[q].sending = peer[q].sending
  BY <1>1, <1>2, <1>3
<1>5. DOMAIN published' = Listed /\ published' \in [Listed -> Entries]
      /\ \A u \in Listed :
           /\ published'[u].copy = published[u].copy
           /\ published'[u].callback = IF u = t THEN NoCall ELSE published[u].callback
  <2>1. published' = TakeCallback(published, t)
    BY DEF HasTx
  <2> QED BY <2>1, TakeCallbackType
<1>6. Listed' = Listed /\ Listed \subseteq Tx
  BY <1>5 DEF Listed, TypeInv, TypeOK
<1>7. /\ ringing' = ringing \cup Taken(t, "OK")
      /\ UNCHANGED <<manager, invalid, held, using, call, told, freed, netVars, status, events>>
      /\ t \in network
  BY DEF HasTx
<1>8. ringing' \subseteq [call : Calls, error : Errors]
  BY <1>7, TakenType DEF TypeInv, TypeOK, Errors
<1>9. txRelays' \in [Tx -> SUBSET Peers] /\ txRequests' \in [Tx -> SUBSET Peers]
  BY RelaysType DEF HasTx, TypeInv, TypeOK
<1>10. CASE found
  <2> DEFINE c == IF t \in Listed THEN published[t].copy ELSE Relayed
  <2>1. c \in Calls \cup {Relayed} /\ Register(t, c)
    BY <1>10 DEF TypeInv, TypeOK, HasTx, Entries
  <2> HIDE DEF c
  <2>2. wallet' \in [Tx -> WalletState] /\ copy' \in [Tx -> Calls \cup {Relayed, NoCall}] /\ KnownHasCopy'
    BY <2>1, RegisterType
  <2>3. TypeInv'
    BY <1>4, <1>5, <1>6, <1>7, <1>8, <1>9, <2>2 DEF TypeInv, TypeOK, netVars
  <2>4. Accept(t)
    BY <1>4, <1>5, <1>6, <1>7, <1>10, <2>1 DEF Accept, Register, InAllTx, TypeInv, TypeOK, c
  <2> QED BY <2>3, <2>4
<1>11. CASE ~found
  <2>1. UNCHANGED <<wallet, copy>>
    BY <1>11 DEF HasTx
  <2>2. published' = published
    BY <1>11 DEF HasTx, TakeCallback, Listed
  <2>3. ringing' = ringing
    BY <1>7, <1>11 DEF Taken, Pending, Listed
  <2>4. TypeInv'
    BY <1>4, <1>6, <1>7, <1>9, <2>1, <2>2, <2>3 DEF TypeInv, TypeOK, KnownHasCopy, InAllTx, netVars
  <2>5. Quiet
    BY <1>4, <1>7, <2>1, <2>2, <2>3 DEF Quiet, KnownSame, SendingShrinks, callVars
  <2> QED BY <2>4, <2>5
<1> QED BY <1>10, <1>11

\* _peerRelayedTx accepts the transaction.
LEMMA RelayedTxType ==
    ASSUME TypeInv, NEW p \in Peers, NEW t \in Tx, RelayedTx(p, t)
    PROVE  TypeInv' /\ Accept(t)
<1> DEFINE reason == manager.syncing /\ p = manager.downloadPeer
           d == KeepTimer(CancelTimer(p, t, peer[p]), reason)
<1>1. peer[p] \in Contexts /\ peer \in [Peers -> Contexts]
  BY DEF TypeInv, TypeOK
<1>2. peer' = [peer EXCEPT ![p] = d]
  BY Zenon DEF RelayedTx
<1> HIDE DEF reason
<1>3. d \in Contexts /\ d.sending = peer[p].sending
  BY <1>1, CancelTimerType, KeepTimerType
<1> HIDE DEF d
<1>4. peer' \in [Peers -> Contexts] /\ \A q \in Peers : peer'[q].sending = peer[q].sending
  BY <1>1, <1>2, <1>3
<1>5. /\ ringing' = ringing \cup Taken(t, "OK")
      /\ UNCHANGED <<manager, invalid, held, using, call, told, freed, netVars, status, events>>
      /\ t \in network
      /\ Register(t, Relayed)
  BY DEF RelayedTx
<1>6. ringing' \subseteq [call : Calls, error : Errors]
  BY <1>5, TakenType DEF TypeInv, TypeOK, Errors
<1>7. txRelays' \in [Tx -> SUBSET Peers] /\ txRequests' \in [Tx -> SUBSET Peers]
  BY RelaysType DEF RelayedTx, TypeInv, TypeOK
<1>8. wallet' \in [Tx -> WalletState] /\ copy' \in [Tx -> Calls \cup {Relayed, NoCall}] /\ KnownHasCopy'
  BY <1>5, RegisterType
<1>9. \A u \in Tx : wallet'[u] = "absent" <=> wallet[u] = "absent" /\ u # t
  BY <1>5 DEF Register, TypeInv, TypeOK
<1>10. \A u \in Tx : copy'[u] # copy[u] => u = t /\ ~InAllTx(t) /\ copy'[t] = Relayed
  BY <1>5 DEF Register, TypeInv, TypeOK, InAllTx
<1>11. /\ Listed' \subseteq Tx /\ published' \in [Listed' -> Entries]
       /\ Listed \subseteq Listed'
       /\ \A u \in Listed :
             /\ published'[u].copy = published[u].copy
             /\ published'[u].callback = IF u = t THEN NoCall ELSE published[u].callback
       /\ \A u \in Listed' \ Listed :
             /\ published'[u].callback = NoCall
             /\ wallet'[u] # "absent"
             /\ published'[u].copy = Relayed \/ (InAllTx(u) /\ published'[u].copy = copy[u])
  <2>1. CASE t \in Listed
    <3>1. published' = TakeCallback(published, t)
      BY <2>1 DEF RelayedTx
    <3> QED BY <3>1, TakeCallbackType DEF Listed, TypeInv, TypeOK
  <2>2. CASE t \notin Listed /\ t \in invalid
    BY <2>2 DEF RelayedTx, Listed, TypeInv, TypeOK
  <2>3. CASE t \notin Listed /\ t \notin invalid
    <3> DEFINE c == IF InAllTx(t) THEN copy[t] ELSE Relayed
    <3>1. published' = AddTxToPublishList(t, c, NoCall)
      BY <2>3 DEF RelayedTx
    <3>2. c \in Calls \cup {Relayed}
      BY DEF TypeInv, TypeOK, KnownHasCopy
    <3> HIDE DEF c
    <3>3. DOMAIN published' \subseteq Tx /\ published' \in [DOMAIN published' -> Entries]
      BY <3>1, <3>2, AddType
    <3>4. published' = [u \in Listed \cup Added(t) |->
                          IF u \in Listed THEN published[u]
                          ELSE IF u = t THEN [copy |-> c, callback |-> NoCall]
                          ELSE [copy |-> copy[u], callback |-> NoCall]]
      BY <2>3, <3>1 DEF AddTxToPublishList
    <3>5. ASSUME NEW u \in Added(t) \ Listed
          PROVE  /\ published'[u].callback = NoCall
                 /\ wallet'[u] # "absent"
                 /\ published'[u].copy = Relayed \/ (InAllTx(u) /\ published'[u].copy = copy[u])
      <4>1. CASE u = t
        BY <3>4, <4>1, <1>9 DEF c
      <4>2. CASE u # t
        <5>1. u \in Unconfirmed
          BY <4>2, AddedType
        <5> QED BY <3>4, <4>2, <5>1, <1>9 DEF Unconfirmed, InAllTx
      <4> QED BY <4>1, <4>2
    <3>6. Listed' = Listed \cup Added(t)
      BY <3>4 DEF Listed
    <3> QED BY <2>3, <3>3, <3>4, <3>5, <3>6 DEF Listed
  <2> QED BY <2>1, <2>2, <2>3
<1>12. TypeInv'
  BY <1>4, <1>5, <1>6, <1>7, <1>8, <1>11 DEF TypeInv, TypeOK, netVars
<1>13. Accept(t)
  BY <1>4, <1>5, <1>9, <1>10, <1>11 DEF Accept
<1> QED BY <1>12, <1>13

\* _peerRequestedTx accepts a valid transaction and refuses another.
LEMMA RequestedTxType ==
    ASSUME TypeInv, NEW p \in Peers, NEW t \in Tx, RequestedTx(p, t)
    PROVE  TypeInv' /\ (Accept(t) \/ Refuse(t))
<1> DEFINE s == IF t \in Listed /\ (t \notin invalid \/ InAllTx(t)) THEN published[t].copy ELSE NoCall
           d == [CancelTimer(p, t, peer[p]) EXCEPT !.sending = s]
<1>1. peer[p] \in Contexts /\ peer \in [Peers -> Contexts]
  BY DEF TypeInv, TypeOK
<1>2. peer' = [peer EXCEPT ![p] = d]
  BY DEF RequestedTx
<1>3. s \in Calls \cup {Relayed, NoCall}
  BY DEF TypeInv, TypeOK, Entries
<1>4. d \in Contexts /\ d.sending = s
  <2> HIDE DEF s
  <2>1. CancelTimer(p, t, peer[p]) \in Contexts
    BY <1>1, CancelTimerType
  <2> QED BY <1>3, <2>1, SendingType
<1> HIDE DEF d
<1>5. peer' \in [Peers -> Contexts] /\ \A q \in Peers : peer'[q].sending = IF q = p THEN s ELSE peer[q].sending
  BY <1>1, <1>2, <1>4
<1>6. UNCHANGED <<txRequests, manager, invalid, held, using, call, told, netVars, status, events>>
  BY DEF RequestedTx
<1>7. CASE t \in Listed /\ t \notin invalid
  <2>1. /\ published' = TakeCallback(published, t)
        /\ ringing' = ringing \cup Taken(t, "OK")
        /\ freed' = freed
        /\ txRelays' = AddPeer(txRelays, t, p)
        /\ Register(t, published[t].copy)
    BY <1>7 DEF RequestedTx
  <2>2. Listed' = Listed /\ published' \in [Listed -> Entries]
        /\ \A u \in Listed :
             /\ published'[u].copy = published[u].copy
             /\ published'[u].callback = IF u = t THEN NoCall ELSE published[u].callback
    BY <2>1, TakeCallbackType DEF Listed
  <2>3. ringing' \subseteq [call : Calls, error : Errors]
    BY <2>1, TakenType DEF TypeInv, TypeOK, Errors
  <2>4. txRelays' \in [Tx -> SUBSET Peers]
    BY <2>1, RelaysType DEF TypeInv, TypeOK
  <2>5. published[t].copy \in Calls \cup {Relayed}
    BY <1>7 DEF TypeInv, TypeOK, Entries
  <2>6. wallet' \in [Tx -> WalletState] /\ copy' \in [Tx -> Calls \cup {Relayed, NoCall}] /\ KnownHasCopy'
    BY <2>1, <2>5, RegisterType
  <2>7. TypeInv'
    BY <1>5, <1>6, <2>1, <2>2, <2>3, <2>4, <2>6 DEF TypeInv, TypeOK, netVars
  <2>8. Accept(t)
    BY <1>5, <1>6, <1>7, <2>1, <2>2 DEF Accept, Register, InAllTx, TypeInv, TypeOK
  <2> QED BY <2>7, <2>8
<1>8. CASE ~(t \in Listed /\ t \notin invalid)
  <2>1. /\ published' = Without(published, {t})
        /\ ringing' = ringing \cup Taken(t, "EINVAL")
        /\ freed' = FreeUnlessKnown(t)
        /\ UNCHANGED <<txRelays, wallet, copy>>
    BY <1>8 DEF RequestedTx
  <2>2. Listed' \subseteq Tx /\ published' \in [Listed' -> Entries]
    BY <2>1, WithoutType DEF Listed
  <2>3. ringing' \subseteq [call : Calls, error : Errors]
    BY <2>1, TakenType DEF TypeInv, TypeOK, Errors
  <2>4. freed' \subseteq Calls \cup {Relayed}
    BY <2>1 DEF FreeUnlessKnown, TypeInv, TypeOK, Entries
  <2>5. TypeInv'
    BY <1>5, <1>6, <2>1, <2>2, <2>3, <2>4 DEF TypeInv, TypeOK, netVars, KnownHasCopy, InAllTx
  <2>6. Refuse(t)
    BY <1>5, <1>6, <1>8, <2>1 DEF Refuse
  <2> QED BY <2>5, <2>6
<1> QED BY <1>7, <1>8

\* A step that leaves the lists of the manager, the wallet and the calls alone.
LEMMA QuietType ==
    ASSUME TypeInv, OthersTyped, SendingShrinks, KnownSame,
           wallet' \in [Tx -> WalletState],
           UNCHANGED <<published, copy, callVars, netVars>>
    PROVE  TypeInv' /\ Quiet
<1>1. Quiet
  BY DEF Quiet
<1>2. Listed' = Listed
  BY DEF Listed
<1>3. KnownHasCopy'
  BY DEF KnownHasCopy, InAllTx, TypeInv, KnownSame
<1>4. TypeOK'
  BY <1>2 DEF TypeInv, TypeOK, OthersTyped, callVars, netVars
<1> QED BY <1>1, <1>3, <1>4 DEF TypeInv

\* One context changes.
LEMMA ContextType ==
    ASSUME TypeInv, NEW p \in Peers, NEW d \in Contexts, peer' = [peer EXCEPT ![p] = d],
           d.sending \in {peer[p].sending, NoCall}
    PROVE  peer' \in [Peers -> Contexts] /\ SendingShrinks
  BY DEF TypeInv, TypeOK, SendingShrinks

\* The messages that no publisher notices.
LEMMA InvTxType ==
    ASSUME TypeInv, NEW p \in Peers, NEW t \in Tx, InvTx(p, t)
    PROVE  TypeInv' /\ Quiet
<1> DEFINE d == SendInv(peer[p], {t})
<1>1. peer' = [peer EXCEPT ![p] = d]
  BY DEF InvTx, SendInv
<1>2. d \in Contexts /\ d.sending = peer[p].sending
  BY SendInvType DEF TypeInv, TypeOK
<1> HIDE DEF d
<1>3. peer' \in [Peers -> Contexts] /\ SendingShrinks
  BY <1>1, <1>2, ContextType
<1>4. UNCHANGED <<mgrVars, walletVars, callVars, netVars, status, events>>
  BY DEF InvTx
<1>5. OthersTyped /\ KnownSame /\ wallet' \in [Tx -> WalletState]
  BY <1>3, <1>4 DEF OthersTyped, KnownSame, TypeInv, TypeOK, mgrVars, walletVars
<1> QED BY <1>3, <1>4, <1>5, QuietType DEF mgrVars, walletVars

\* _peerDataNotfound.
LEMMA DataNotfoundType ==
    ASSUME TypeInv, NEW p \in Peers, NEW t \in Tx, DataNotfound(p, t)
    PROVE  TypeInv' /\ Quiet
<1>1. UNCHANGED <<published, manager, walletVars, callVars, netVars, status, peer, events>>
  BY DEF DataNotfound
<1>2. txRelays' \in [Tx -> SUBSET Peers] /\ txRequests' \in [Tx -> SUBSET Peers]
  BY RelaysType DEF DataNotfound, TypeInv, TypeOK
<1>3. OthersTyped /\ KnownSame /\ SendingShrinks /\ wallet' \in [Tx -> WalletState]
  BY <1>1, <1>2 DEF OthersTyped, KnownSame, SendingShrinks, TypeInv, TypeOK, walletVars
<1> QED BY <1>1, <1>3, QuietType DEF walletVars

\* BRWalletRegisterTransaction of another transaction.
LEMMA ConflictType ==
    ASSUME TypeInv, NEW t \in Tx, Conflict(t)
    PROVE  TypeInv' /\ Quiet
<1>1. UNCHANGED <<mgrVars, wallet, copy, callVars, netVars, status, peer, events>> /\ invalid' \subseteq Tx
  BY DEF Conflict, TypeInv, TypeOK
<1>2. OthersTyped /\ KnownSame /\ SendingShrinks /\ wallet' \in [Tx -> WalletState]
  BY <1>1 DEF OthersTyped, KnownSame, SendingShrinks, TypeInv, TypeOK, mgrVars
<1> QED BY <1>1, <1>2, QuietType DEF mgrVars

\* Fields of the manager.
LEMMA ManagerType ==
    \A m \in Managers :
       /\ \A n \in Nat : [m EXCEPT !.connectFailureCount = n] \in Managers
       /\ \A b \in BOOLEAN : [m EXCEPT !.syncing = b] \in Managers
       /\ \A d \in Peers \cup {NoPeer} :
             /\ [m EXCEPT !.downloadPeer = d] \in Managers
             /\ \A n \in Nat : [m EXCEPT !.downloadPeer = d, !.connectFailureCount = n] \in Managers
       /\ \A n \in Nat, b \in BOOLEAN : [m EXCEPT !.connectFailureCount = n, !.syncing = b] \in Managers
  BY DEF Managers

\* BRPeerManagerConnect.
LEMMA ConnectType ==
    ASSUME TypeInv, NEW p \in Peers, Connect(p)
    PROVE  TypeInv' /\ Quiet
<1>1. /\ UNCHANGED <<published, txRelays, txRequests, walletVars, callVars, netVars>>
      /\ events' = events + 1
      /\ status' = [status EXCEPT ![p] = "connecting"]
      /\ peer' = [peer EXCEPT ![p] = Fresh]
  BY DEF Connect
<1>2. manager' \in Managers
  <2>1. PICK behind \in BOOLEAN :
          manager' = [manager EXCEPT
              !.connectFailureCount = IF @ >= MAX_CONNECT_FAILURES THEN 0 ELSE @,
              !.syncing = @ \/ manager.downloadPeer = NoPeer \/ behind]
    BY DEF Connect
  <2> DEFINE n == IF manager.connectFailureCount >= MAX_CONNECT_FAILURES THEN 0
                  ELSE manager.connectFailureCount
             b == manager.syncing \/ manager.downloadPeer = NoPeer \/ behind
  <2>2. manager' = [manager EXCEPT !.connectFailureCount = n, !.syncing = b]
    BY <2>1
  <2>3. n \in Nat /\ b \in BOOLEAN /\ manager \in Managers
    BY DEF TypeInv, TypeOK, Managers
  <2> HIDE DEF n, b
  <2> QED BY <2>2, <2>3, ManagerType
<1>3. peer' \in [Peers -> Contexts] /\ SendingShrinks
  BY <1>1, FreshType, ContextType
<1>4. OthersTyped /\ KnownSame /\ wallet' \in [Tx -> WalletState]
  BY <1>1, <1>2, <1>3 DEF OthersTyped, KnownSame, TypeInv, TypeOK, walletVars, PeerStatus
<1> QED BY <1>1, <1>3, <1>4, QuietType DEF walletVars

\* _peerThreadRoutine leaves its loop.
LEMMA ThreadEndsType ==
    ASSUME TypeInv, NEW p \in Peers, ThreadEnds(p)
    PROVE  TypeInv' /\ Quiet
<1> DEFINE d == [Fresh EXCEPT !.pongs = peer[p].pongs, !.synced = peer[p].synced]
<1>1. /\ UNCHANGED <<mgrVars, walletVars, callVars, netVars, events>>
      /\ status' = [status EXCEPT ![p] = IF @ = "closed" THEN "shut" ELSE "ended"]
      /\ peer' = [peer EXCEPT ![p] = d]
  BY DEF ThreadEnds
<1>2. peer[p] \in Contexts
  BY DEF TypeInv, TypeOK
<1>3. d \in Contexts /\ d.sending = NoCall
  BY <1>2, FreshType DEF Contexts
<1> HIDE DEF d
<1>4. peer' \in [Peers -> Contexts] /\ SendingShrinks
  BY <1>1, <1>3, ContextType
<1>5. OthersTyped /\ KnownSame /\ wallet' \in [Tx -> WalletState]
  BY <1>1, <1>4 DEF OthersTyped, KnownSame, TypeInv, TypeOK, walletVars, mgrVars, PeerStatus
<1> QED BY <1>1, <1>4, <1>5, QuietType DEF walletVars, mgrVars

\* _BRPeerDidConnect.
LEMMA GreetedType ==
    ASSUME TypeInv, NEW p \in Peers
    PROVE  Greeted(p) \in [Peers -> Contexts] /\ \A q \in Peers : Greeted(p)[q].sending = peer[q].sending
<1> DEFINE d == [peer[p] EXCEPT !.timer = FALSE]
<1>1. peer \in [Peers -> Contexts]
  BY DEF TypeInv, TypeOK
<1>2. d \in Contexts /\ d.sending = peer[p].sending
  BY <1>1, TimerType
<1>3. Greeted(p) = [peer EXCEPT ![p] = d]
  BY DEF Greeted
<1> HIDE DEF d
<1> QED BY <1>1, <1>2, <1>3

\* Several contexts change, none of them in what is sent.
LEMMA PeersType ==
    ASSUME TypeInv, peer' \in [Peers -> Contexts], \A q \in Peers : peer'[q].sending = peer[q].sending,
           manager' \in Managers,
           status' \in [Peers -> PeerStatus],
           UNCHANGED PeerConnectedVars
    PROVE  TypeInv' /\ Quiet
<1>1. OthersTyped /\ KnownSame /\ SendingShrinks /\ wallet' \in [Tx -> WalletState]
  BY DEF OthersTyped, KnownSame, SendingShrinks, TypeInv, TypeOK, PeerConnectedVars, walletVars
<1> QED BY <1>1, QuietType DEF PeerConnectedVars, walletVars

\* _peerConnected disconnects a node that is of no use.
LEMMA UnfitType ==
    ASSUME TypeInv, NEW p \in Peers, PeerConnectedUnfit(p)
    PROVE  TypeInv' /\ Quiet
<1>1. peer' \in [Peers -> Contexts] /\ \A q \in Peers : peer'[q].sending = peer[q].sending
  BY GreetedType DEF PeerConnectedUnfit
<1>2. /\ manager' \in Managers
      /\ status' \in [Peers -> PeerStatus]
      /\ UNCHANGED PeerConnectedVars
  BY DEF PeerConnectedUnfit, TypeInv, TypeOK, PeerStatus
<1> QED BY <1>1, <1>2, PeersType

\* A peer that is sent the filter and the publish list.
LEMMA FilterLoadType ==
    ASSUME TypeInv, NEW c \in Contexts
    PROVE  LET d == PublishPending(published, LoadFilter(c))
               e == SendPing(d, "filterDone")
           IN  d \in Contexts /\ d.sending = c.sending /\ e \in Contexts /\ e.sending = c.sending
<1> DEFINE d == PublishPending(published, LoadFilter(c))
<1>1. DOMAIN published \subseteq Tx
  BY DEF TypeInv, TypeOK, Listed
<1>2. d \in Contexts /\ d.sending = c.sending
  BY <1>1, LoadFilterType, PublishPendingType
<1> HIDE DEF d
<1>3. SendPing(d, "filterDone") \in Contexts /\ SendPing(d, "filterDone").sending = c.sending
  BY <1>2, SendPingType DEF Pongs
<1> QED BY <1>2, <1>3 DEF d

\* _peerConnected keeps the download peer.
LEMMA OtherType ==
    ASSUME TypeInv, NEW p \in Peers, PeerConnectedOther(p)
    PROVE  TypeInv' /\ Quiet
<1> DEFINE c == Greeted(p)[p]
           d == SendPing(PublishPending(published, LoadFilter(c)), "filterDone")
<1>1. Greeted(p) \in [Peers -> Contexts] /\ \A q \in Peers : Greeted(p)[q].sending = peer[q].sending
  BY GreetedType
<1>2. d \in Contexts /\ d.sending = peer[p].sending
  BY <1>1, FilterLoadType
<1>3. peer' = [Greeted(p) EXCEPT ![p] = d] \/ peer' = Greeted(p)
  BY DEF PeerConnectedOther
<1> HIDE DEF d
<1>4. peer' \in [Peers -> Contexts] /\ \A q \in Peers : peer'[q].sending = peer[q].sending
  BY <1>1, <1>2, <1>3
<1>5. /\ manager' \in Managers
      /\ status' \in [Peers -> PeerStatus]
      /\ UNCHANGED PeerConnectedVars
  <2>1. manager \in Managers /\ status \in [Peers -> PeerStatus]
    BY DEF TypeInv, TypeOK
  <2>2. manager' = [manager EXCEPT !.connectFailureCount = 0] \/ manager' = manager
    BY DEF PeerConnectedOther
  <2>3. manager' \in Managers
    BY <2>1, <2>2 DEF Managers
  <2> QED BY <2>1, <2>3 DEF PeerConnectedOther, DidConnect, PeerStatus
<1> QED BY <1>4, <1>5, PeersType

\* _BRPeerManagerLoadMempools.
LEMMA MempoolsType ==
    ASSUME TypeInv, NEW ctx \in [Peers -> Contexts], NEW C, NEW dp, NEW highFp, NEW res,
           res = LoadMempools(ctx, C, dp, highFp)
    PROVE  res \in [Peers -> Contexts] /\ \A q \in Peers : res[q].sending = ctx[q].sending
<1>1. ASSUME NEW q \in Peers
      PROVE  res[q] \in Contexts /\ res[q].sending = ctx[q].sending
  <2> DEFINE e == SendPing(PublishPending(published, LoadFilter(ctx[q])), "filterDone")
             f == SendMempool(ctx[q], Listed)
  <2>1. e \in Contexts /\ e.sending = ctx[q].sending
    BY FilterLoadType
  <2>2. f \in Contexts /\ f.sending = ctx[q].sending
    BY SendMempoolType DEF TypeInv, TypeOK
  <2>3. res[q] = ctx[q] \/ res[q] = e \/ res[q] = f
    BY DEF LoadMempools
  <2> QED BY <2>1, <2>2, <2>3
<1>2. res = [q \in Peers |-> res[q]]
  BY DEF LoadMempools
<1> QED BY <1>1, <1>2

\* _peerConnected takes a new download peer.
LEMMA DownloadType ==
    ASSUME TypeInv, NEW p \in Peers, NEW q \in Peers, PeerConnectedDownload(p, q)
    PROVE  TypeInv' /\ Quiet
<1> DEFINE old == manager.downloadPeer
           d == PublishPending(published, LoadFilter(Greeted(p)[q]))
           ctx == [Greeted(p) EXCEPT ![q] = d]
           e == [ctx[q] EXCEPT !.timer = TRUE]
<1>1. Greeted(p) \in [Peers -> Contexts] /\ \A r \in Peers : Greeted(p)[r].sending = peer[r].sending
  BY GreetedType
<1>2. d \in Contexts /\ d.sending = peer[q].sending
  BY <1>1, FilterLoadType
<1>3. /\ status' = [r \in Peers |-> CASE r = p -> "connected"
                                        [] r = old /\ IsConnected(r) -> "closed"
                                        [] OTHER -> status[r]]
      /\ \/ /\ manager' = [manager EXCEPT !.downloadPeer = q]
            /\ peer' = [ctx EXCEPT ![q] = e]
         \/ \E highFp \in BOOLEAN :
               /\ manager' = [manager EXCEPT !.downloadPeer = q, !.connectFailureCount = 0]
               /\ peer' = LoadMempools(ctx, {r \in Peers : r = p \/ IsConnected(r)}, q, highFp)
      /\ UNCHANGED PeerConnectedVars
  BY DEF PeerConnectedDownload
<1> HIDE DEF d
<1>4. ctx \in [Peers -> Contexts] /\ \A r \in Peers : ctx[r].sending = peer[r].sending
  BY <1>1, <1>2
<1> HIDE DEF ctx
<1>5. e \in Contexts /\ e.sending = peer[q].sending
  BY <1>4, TimerType
<1> HIDE DEF e
<1>6. peer' \in [Peers -> Contexts] /\ \A r \in Peers : peer'[r].sending = peer[r].sending
  <2>1. CASE peer' = [ctx EXCEPT ![q] = e]
    BY <1>4, <1>5, <2>1
  <2>2. CASE \E highFp \in BOOLEAN :
                peer' = LoadMempools(ctx, {r \in Peers : r = p \/ IsConnected(r)}, q, highFp)
    <3> DEFINE C == {r \in Peers : r = p \/ IsConnected(r)}
    <3>1. PICK highFp \in BOOLEAN : peer' = LoadMempools(ctx, C, q, highFp)
      BY <2>2
    <3> HIDE DEF C
    <3>2. peer' \in [Peers -> Contexts] /\ \A r \in Peers : peer'[r].sending = ctx[r].sending
      BY <3>1, <1>4, MempoolsType
    <3> QED BY <3>2, <1>4
  <2> QED BY <1>3, <2>1, <2>2
<1>7. manager' \in Managers
  <2>1. manager \in Managers
    BY DEF TypeInv, TypeOK
  <2>2. \/ manager' = [manager EXCEPT !.downloadPeer = q]
        \/ manager' = [manager EXCEPT !.downloadPeer = q, !.connectFailureCount = 0]
    BY <1>3
  <2>3. CASE manager' = [manager EXCEPT !.downloadPeer = q]
    BY <2>1, <2>3 DEF Managers
  <2>4. CASE manager' = [manager EXCEPT !.downloadPeer = q, !.connectFailureCount = 0]
    BY <2>1, <2>4 DEF Managers
  <2> QED BY <2>2, <2>3, <2>4
<1>8. status' \in [Peers -> PeerStatus]
  BY <1>3 DEF TypeInv, TypeOK, PeerStatus
<1> QED BY <1>3, <1>6, <1>7, <1>8, PeersType

\* _peerRelayedBlock at the end of the chain.
LEMMA DownloadedType ==
    ASSUME TypeInv, NEW p \in Peers, ChainDownloaded(p)
    PROVE  TypeInv' /\ Quiet
<1>1. /\ events' = events + 1
      /\ \E highFp \in BOOLEAN :
            peer' = LoadMempools(peer, {q \in Peers : IsConnected(q)}, p, highFp)
      /\ UNCHANGED <<published, txRelays, txRequests, walletVars, callVars, netVars, status>>
  BY DEF ChainDownloaded
<1>2. peer \in [Peers -> Contexts]
  BY DEF TypeInv, TypeOK
<1>3. peer' \in [Peers -> Contexts] /\ \A q \in Peers : peer'[q].sending = peer[q].sending
  BY <1>1, <1>2, MempoolsType
<1>4. manager' \in Managers
  <2>1. PICK n \in {0, manager.connectFailureCount} : manager' = [manager EXCEPT !.connectFailureCount = n]
    BY DEF ChainDownloaded
  <2>2. n \in Nat /\ manager \in Managers
    BY <2>1 DEF TypeInv, TypeOK, Managers
  <2> QED BY <2>1, <2>2, ManagerType
<1>5. SendingShrinks /\ KnownSame
  BY <1>1, <1>3 DEF SendingShrinks, KnownSame, walletVars
<1>6. OthersTyped /\ wallet' \in [Tx -> WalletState]
  <2>1. invalid' = invalid /\ wallet' = wallet
    BY <1>1 DEF walletVars
  <2>2. events' \in Nat
    BY <1>1 DEF TypeInv, TypeOK
  <2> QED BY <1>1, <1>3, <1>4, <2>1, <2>2 DEF OthersTyped, TypeInv, TypeOK
<1> QED BY <1>1, <1>5, <1>6, QuietType DEF walletVars

-----------------------------------------------------------------------------
(* The pong callbacks. *)

\* _BRPeerManagerRequestUnrelayedTx.
LEMMA UnrelayedType ==
    ASSUME TypeInv, NEW p \in Peers, NEW ctx \in [Peers -> Contexts], RequestUnrelayedTx(p, ctx)
    PROVE  /\ txRequests' \in [Tx -> SUBSET Peers]
           /\ peer' \in [Peers -> Contexts]
           /\ \A q \in Peers : peer'[q].sending = ctx[q].sending
<1> DEFINE d == [ctx[p] EXCEPT !.synced = TRUE]
           e == SendPing(ctx[p], "getdataDone")
<1>1. d \in Contexts /\ d.sending = ctx[p].sending
  BY DEF Contexts
<1>2. e \in Contexts /\ e.sending = ctx[p].sending
  BY SendPingType DEF Pongs
<1>3. \E f \in {d, e, ctx[p]} : peer' = [ctx EXCEPT ![p] = f]
  BY DEF RequestUnrelayedTx
<1> HIDE DEF d, e
<1>4. txRequests' \in [Tx -> SUBSET Peers]
  BY DEF RequestUnrelayedTx, TypeInv, TypeOK
<1> QED BY <1>1, <1>2, <1>3, <1>4

\* _BRPeerManagerSyncStopped.
LEMMA SyncStoppedType ==
    ASSUME TypeInv, NEW ctx \in [Peers -> Contexts], NEW res, res = SyncStopped(ctx)
    PROVE  res \in [Peers -> Contexts] /\ \A q \in Peers : res[q].sending = ctx[q].sending
<1>1. CASE res = ctx
  BY <1>1
<1>2. CASE res # ctx
  <2> DEFINE p == manager.downloadPeer
             d == [ctx[p] EXCEPT !.timer = FALSE]
  <2>1. p \in Peers
    BY <1>2 DEF SyncStopped, TypeInv, TypeOK, Managers
  <2>2. res = [ctx EXCEPT ![p] = d]
    BY <1>2 DEF SyncStopped
  <2>3. d \in Contexts /\ d.sending = ctx[p].sending
    BY <2>1, TimerType
  <2> HIDE DEF d, p
  <2> QED BY <2>1, <2>2, <2>3
<1> QED BY <1>1, <1>2

\* BRWalletRemoveTransaction removes unconfirmed transactions only.
LEMMA DependentsType == ASSUME NEW D, D \subseteq Unconfirmed PROVE WithDependents(D) \subseteq Unconfirmed
  BY DEF WithDependents, Unconfirmed

\* The pong callbacks.
LEMMA PongType ==
    ASSUME TypeInv, NEW p \in Peers, NEW success \in BOOLEAN, CallPong(p, success)
    PROVE  TypeInv' /\ Quiet
<1> DEFINE d == [peer[p] EXCEPT !.pongs = Tail(@)]
           ctx == [peer EXCEPT ![p].pongs = Tail(@)]
<1>1. peer \in [Peers -> Contexts] /\ peer[p].pongs \in Seq(Pongs) /\ peer[p].pongs # <<>>
  BY DEF TypeInv, TypeOK, Contexts, CallPong
<1>2. Tail(peer[p].pongs) \in Seq(Pongs) /\ Head(peer[p].pongs) \in Pongs
  BY <1>1
<1>3. d \in Contexts /\ d.sending = peer[p].sending
  BY <1>1, <1>2 DEF Contexts
<1>4. ctx = [peer EXCEPT ![p] = d]
  OBVIOUS
<1>5. ctx \in [Peers -> Contexts] /\ \A q \in Peers : ctx[q].sending = peer[q].sending
  <2> HIDE DEF d, ctx
  <2> QED BY <1>1, <1>3, <1>4
<1>6. /\ UNCHANGED <<copy, invalid, callVars, netVars, status, events>>
      /\ \/ PublishTxInvDone(p, ctx)
         \/ RequestUnrelayedTxGetdataDone(p, success, ctx)
         \/ MempoolDone(p, success, ctx)
         \/ LoadBloomFilterDone(p, success, ctx)
  BY <1>2 DEF CallPong, Pongs
<1> HIDE DEF d, ctx
<1>7. /\ txRelays' \in [Tx -> SUBSET Peers] /\ txRequests' \in [Tx -> SUBSET Peers]
      /\ manager' \in Managers
      /\ published' = published
      /\ peer' \in [Peers -> Contexts]
      /\ \A q \in Peers : peer'[q].sending = peer[q].sending
      /\ KnownSame /\ wallet' \in [Tx -> WalletState]
  <2>1. CASE PublishTxInvDone(p, ctx)
    BY <1>5, <2>1, UnrelayedType DEF PublishTxInvDone, TypeInv, TypeOK, KnownSame
  <2>2. CASE RequestUnrelayedTxGetdataDone(p, success, ctx)
    <3> DEFINE b == ctx[p].synced \/ success
               f == [ctx[p] EXCEPT !.synced = b]
    <3>1. b \in BOOLEAN
      OBVIOUS
    <3>2. peer' = [ctx EXCEPT ![p] = f]
      BY <2>2 DEF RequestUnrelayedTxGetdataDone
    <3> HIDE DEF b
    <3>3. f \in Contexts /\ f.sending = ctx[p].sending
      BY <1>5, <3>1 DEF Contexts
    <3> HIDE DEF f
    <3>4. peer' \in [Peers -> Contexts] /\ \A q \in Peers : peer'[q].sending = peer[q].sending
      BY <1>5, <3>2, <3>3
    <3>5. WithDependents(Dropped) \subseteq Unconfirmed
      BY DependentsType DEF Dropped
    <3>6. \/ wallet' = [t \in Tx |-> IF t \in WithDependents(Dropped) THEN "removed" ELSE wallet[t]]
          \/ wallet' = wallet
      BY <2>2 DEF RequestUnrelayedTxGetdataDone
    <3>7. KnownSame /\ wallet' \in [Tx -> WalletState]
      BY <3>5, <3>6 DEF KnownSame, Unconfirmed, WalletState, TypeInv, TypeOK
    <3>8. UNCHANGED mgrVars
      BY <2>2 DEF RequestUnrelayedTxGetdataDone
    <3> QED BY <3>4, <3>7, <3>8 DEF mgrVars, TypeInv, TypeOK
  <2>3. CASE MempoolDone(p, success, ctx)
    <3>1. CASE success
      <4> DEFINE c == IF manager.syncing THEN SyncStopped(ctx) ELSE ctx
      <4>1. /\ manager' = [manager EXCEPT !.syncing = FALSE]
            /\ RequestUnrelayedTx(p, c)
            /\ UNCHANGED <<published, txRelays, wallet>>
        BY <2>3, <3>1 DEF MempoolDone
      <4>2. c \in [Peers -> Contexts] /\ \A q \in Peers : c[q].sending = peer[q].sending
        BY <1>5, SyncStoppedType
      <4> HIDE DEF c
      <4> QED BY <4>1, <4>2, UnrelayedType, ManagerType DEF TypeInv, TypeOK, KnownSame
    <3>2. CASE ~success
      BY <1>5, <2>3, <3>2 DEF MempoolDone, mgrVars, TypeInv, TypeOK, KnownSame
    <3> QED BY <3>1, <3>2
  <2>4. CASE LoadBloomFilterDone(p, success, ctx)
    <3> DEFINE f == SendMempool(ctx[p], Listed)
    <3>1. f \in Contexts /\ f.sending = ctx[p].sending
      BY <1>5, SendMempoolType DEF TypeInv, TypeOK
    <3>2. UNCHANGED <<published, txRelays, txRequests, wallet>>
      BY <2>4 DEF LoadBloomFilterDone
    <3>3. peer' = [ctx EXCEPT ![p] = f] \/ peer' = SyncStopped(ctx) \/ peer' = ctx
      BY <2>4 DEF LoadBloomFilterDone
    <3> HIDE DEF f
    <3>4. peer' \in [Peers -> Contexts] /\ \A q \in Peers : peer'[q].sending = peer[q].sending
      BY <1>5, <3>1, <3>3, SyncStoppedType
    <3>5. manager' \in Managers
      <4>1. manager \in Managers
        BY DEF TypeInv, TypeOK
      <4>2. manager' = [manager EXCEPT !.syncing = FALSE] \/ manager' = manager
        BY <2>4 DEF LoadBloomFilterDone
      <4> QED BY <4>1, <4>2, ManagerType
    <3> QED BY <3>2, <3>4, <3>5 DEF TypeInv, TypeOK, KnownSame
  <2> QED BY <1>6, <2>1, <2>2, <2>3, <2>4
<1>8. OthersTyped /\ SendingShrinks
  BY <1>6, <1>7 DEF OthersTyped, SendingShrinks, TypeInv, TypeOK
<1> QED BY <1>6, <1>7, <1>8, QuietType

\* The thread sends what it was given.
LEMMA SendTxType ==
    ASSUME TypeInv, NEW p \in Peers, SendTx(p)
    PROVE  TypeInv' /\ Transmit(p)
<1> DEFINE c == peer[p].sending
           d == [peer[p] EXCEPT !.sending = NoCall]
<1>1. /\ c # NoCall
      /\ \A r \in ringing : r.call # c
      /\ peer' = [peer EXCEPT ![p] = d]
      /\ \/ UNCHANGED netVars
         \/ /\ sent' = sent \cup {c}
            /\ network' = IF c \in Calls THEN network \cup {TxOf[c]} ELSE network
      /\ UNCHANGED <<mgrVars, walletVars, callVars, status, events>>
  BY DEF SendTx
<1>2. peer[p] \in Contexts /\ c \in Calls \cup {Relayed, NoCall}
  BY DEF TypeInv, TypeOK, Contexts
<1>3. d \in Contexts /\ d.sending = NoCall
  BY <1>2, SendingType
<1> HIDE DEF d
<1>4. peer' \in [Peers -> Contexts] /\ SendingShrinks
  BY <1>1, <1>3, ContextType
<1>5. sent' \subseteq Calls \cup {Relayed} /\ network' \subseteq Tx
  BY <1>1, <1>2 DEF TypeInv, TypeOK, netVars
<1>6. TypeInv'
  BY <1>1, <1>4, <1>5 DEF TypeInv, TypeOK, KnownHasCopy, InAllTx, Listed, mgrVars, walletVars, callVars
<1>7. Transmit(p)
  BY <1>1, <1>4 DEF Transmit, mgrVars, walletVars
<1> QED BY <1>6, <1>7

\* _BRPeerManagerUpdateTx with a block height.
LEMMA BlockConfirmsType ==
    ASSUME TypeInv, NEW p \in Peers, NEW t \in Tx, BlockConfirms(p, t)
    PROVE  TypeInv' /\ Confirm(t)
<1>1. /\ t \in network
      /\ published' = Without(published, {t})
      /\ freed' = FreeUnlessKnown(t)
      /\ txRelays' = [txRelays EXCEPT ![t] = {}]
      /\ wallet' = [wallet EXCEPT ![t] = IF @ = "unconfirmed" THEN "confirmed" ELSE @]
      /\ invalid' = invalid \ {t}
      /\ UNCHANGED <<txRequests, manager, copy, held, using, call, ringing, told, netVars, status, peer,
                   events>>
  BY DEF BlockConfirms
<1>2. KnownSame /\ wallet' \in [Tx -> WalletState]
  BY <1>1 DEF KnownSame, TypeInv, TypeOK, WalletState
<1>3. SendingShrinks
  BY <1>1 DEF SendingShrinks
<1>4. Listed' \subseteq Tx /\ published' \in [Listed' -> Entries]
  BY <1>1, WithoutType DEF Listed
<1>5. freed' \subseteq Calls \cup {Relayed}
  BY <1>1 DEF FreeUnlessKnown, TypeInv, TypeOK, Entries
<1>6. txRelays' \in [Tx -> SUBSET Peers] /\ invalid' \subseteq Tx
  BY <1>1 DEF TypeInv, TypeOK
<1>7. TypeInv'
  BY <1>1, <1>2, <1>4, <1>5, <1>6 DEF TypeInv, TypeOK, KnownHasCopy, KnownSame, InAllTx, netVars
<1>8. Confirm(t)
  BY <1>1, <1>2, <1>3 DEF Confirm
<1> QED BY <1>7, <1>8

\* _peerDisconnected cancels all pending publications or none.
LEMMA DisconnectedType ==
    ASSUME TypeInv, NEW p \in Peers, NEW error \in Errors, PeerDisconnected(p, error)
    PROVE  TypeInv' /\ (Quiet \/ \E S \in SUBSET Tx, e \in Errors : Cancel(S, e))
<1> DEFINE lost     == p = manager.downloadPeer
           counted  == manager.connectFailureCount + (IF error \in {"OK", "EPROTO"} THEN 0 ELSE 1)
           failures == IF lost /\ counted > MAX_CONNECT_FAILURES THEN MAX_CONNECT_FAILURES ELSE counted
           dp       == IF lost THEN NoPeer ELSE manager.downloadPeer
           failed   == dp = NoPeer /\ failures = MAX_CONNECT_FAILURES
           timeout  == error = "ETIMEDOUT" /\ (~lost \/ ~manager.syncing \/ connectedPeers = {p})
           txError  == IF failed THEN "ENOTCONN" ELSE IF timeout THEN "ETIMEDOUT" ELSE "OK"
           cancel   == IF txError = "OK" THEN {} ELSE Pending(published)
<1>1. /\ status' = [status EXCEPT ![p] = "off"]
      /\ peer' = [peer EXCEPT ![p] = Fresh]
      /\ manager' = [downloadPeer |-> dp, connectFailureCount |-> failures,
                     syncing |-> manager.syncing /\ ~failed]
      /\ txRelays' = ForgetRelays(p)
      /\ published' = Without(published, cancel)
      /\ freed' = freed \cup {published[t].copy : t \in cancel}
      /\ ringing' = ringing \cup Cancelled(cancel, txError)
      /\ UNCHANGED <<txRequests, walletVars, held, using, call, told, netVars, events>>
  BY Zenon DEF PeerDisconnected
<1>2. manager \in Managers
  BY DEF TypeInv, TypeOK
<1>3. counted \in Nat /\ dp \in Peers \cup {NoPeer}
  BY <1>2 DEF Managers
<1>4. failures \in Nat
  BY <1>3
<1>5. txError \in Errors /\ cancel \subseteq Pending(published) /\ (txError = "OK" => cancel = {})
  BY DEF Errors
<1> DEFINE sync == manager.syncing /\ ~failed
<1>6. sync \in BOOLEAN
  OBVIOUS
<1> HIDE DEF failures, dp, txError, cancel, sync
<1>7. manager' \in Managers
  <2>1. manager' = [downloadPeer |-> dp, connectFailureCount |-> failures, syncing |-> sync]
    BY <1>1 DEF sync
  <2> QED BY <2>1, <1>3, <1>4, <1>6 DEF Managers
<1>8. peer' \in [Peers -> Contexts] /\ SendingShrinks
  BY <1>1, FreshType, ContextType
<1>9. cancel \subseteq Listed /\ \A t \in cancel : published[t].callback \in Calls /\ published[t].copy \in Calls \cup {Relayed}
  BY <1>5 DEF Pending, Listed, TypeInv, TypeOK, Entries
<1>10. Listed' \subseteq Tx /\ published' \in [Listed' -> Entries]
  BY <1>1, WithoutType DEF Listed
<1>11. freed' \subseteq Calls \cup {Relayed}
  BY <1>1, <1>9 DEF TypeInv, TypeOK
<1>12. ringing' \subseteq [call : Calls, error : Errors]
  BY <1>1, <1>5, <1>9 DEF TypeInv, TypeOK, Cancelled
<1>13. status' \in [Peers -> PeerStatus] /\ txRelays' \in [Tx -> SUBSET Peers]
  BY <1>1 DEF TypeInv, TypeOK, ForgetRelays, PeerStatus
<1>14. TypeInv'
  BY <1>1, <1>7, <1>8, <1>10, <1>11, <1>12, <1>13 DEF TypeInv, TypeOK, KnownHasCopy, InAllTx, walletVars, netVars
<1>15. KnownSame
  BY <1>1 DEF KnownSame, walletVars
<1>16. CASE txError = "OK"
  <2>1. cancel = {}
    BY <1>5, <1>16
  <2>2. published' = published
    BY <1>1, <2>1 DEF Without, TypeInv, TypeOK, Listed
  <2>3. freed' = freed /\ ringing' = ringing
    BY <1>1, <2>1 DEF Cancelled
  <2>4. Quiet
    BY <1>1, <1>8, <1>15, <2>2, <2>3 DEF Quiet, callVars, walletVars
  <2> QED BY <1>14, <2>4
<1>17. CASE txError # "OK"
  <2>1. Cancel(cancel, txError)
    BY <1>1, <1>5, <1>8, <1>15, <1>17 DEF Cancel, walletVars
  <2>2. cancel \in SUBSET Tx
    BY <1>9 DEF TypeInv, TypeOK
  <2> QED BY <1>5, <1>14, <2>1, <2>2
<1> QED BY <1>16, <1>17

-----------------------------------------------------------------------------

\* What a step of the manager does to the publications.
ManagerStep ==
    \/ Quiet
    \/ \E t \in Tx : Accept(t) \/ Refuse(t) \/ Confirm(t)
    \/ \E S \in SUBSET Tx, e \in Errors : Cancel(S, e)
    \/ \E p \in Peers : Transmit(p)

\* What a publisher does, or what is done to it.
CallStep ==
    \/ \E c, k \in Calls : \/ PublishTx(c, k)
                           \/ PublishTxNotConnected(c, k)
                           \/ PublishTxCheck(c, k)
    \/ \E c \in Calls : PublishTxChecked(c)
    \/ \E r \in ringing : TxCallback(r)

\* Every step is a publisher's or of one of the kinds.
LEMMA ManagerSteps ==
    ASSUME TypeInv, Next
    PROVE  CallStep \/ (ManagerStep /\ TypeInv')
<1>1. CASE \E p \in Peers, t \in Tx : \/ HasTx(p, t)
                                 \/ InvTx(p, t)
                                 \/ RelayedTx(p, t)
                                 \/ RequestedTx(p, t)
                                 \/ DataNotfound(p, t)
                                 \/ BlockConfirms(p, t)
  BY <1>1, HasTxType, InvTxType, RelayedTxType, RequestedTxType, DataNotfoundType, BlockConfirmsType
     DEF ManagerStep
<1>2. CASE \E p \in Peers : \/ SendTx(p)
                            \/ Connect(p)
                            \/ PeerConnectedUnfit(p)
                            \/ PeerConnectedOther(p)
                            \/ ChainDownloaded(p)
                            \/ ThreadEnds(p)
  BY <1>2, SendTxType, ConnectType, UnfitType, OtherType, DownloadedType, ThreadEndsType DEF ManagerStep
<1>3. CASE \E p, q \in Peers : PeerConnectedDownload(p, q)
  BY <1>3, DownloadType DEF ManagerStep
<1>4. CASE \E p \in Peers : Pong(p) \/ EndPong(p)
  BY <1>4, PongType DEF ManagerStep, Pong, EndPong
<1>5. CASE \E p \in Peers, e \in Errors : PeerDisconnected(p, e)
  BY <1>5, DisconnectedType DEF ManagerStep
<1>6. CASE \E t \in Tx : Conflict(t)
  BY <1>6, ConflictType DEF ManagerStep
<1>7. CASE CallStep
  BY <1>7
<1> QED BY <1>1, <1>2, <1>3, <1>4, <1>5, <1>6, <1>7 DEF Next, CallStep

\* A call that has begun was given a copy.
CalledHasCopy == \A c \in Calls : call[c] # "idle" => using[c] # NoCall

\* Types are kept by every step.
LEMMA StepType ==
    ASSUME TypeInv, CalledHasCopy, [Next]_vars
    PROVE  TypeInv' /\ CalledHasCopy'
<1>1. CASE \E c, k \in Calls : PublishTx(c, k)
  <2>1. TypeInv'
    BY <1>1, TappedType, PublishType DEF PublishTx
  <2>2. CalledHasCopy'
    <3>1. PICK c \in Calls, k \in Calls :
            using' = [using EXCEPT ![c] = k] /\ call' = [call EXCEPT ![c] = "published"]
      BY <1>1 DEF PublishTx, DoPublish, SendTapped
    <3> QED BY <3>1 DEF CalledHasCopy, TypeInv, TypeOK
  <2> QED BY <2>1, <2>2
<1>2. CASE \E c, k \in Calls : PublishTxNotConnected(c, k) \/ PublishTxCheck(c, k)
  <2>1. TypeInv'
    BY <1>2, CallsType
  <2>2. CalledHasCopy'
    <3>1. PICK c \in Calls, k \in Calls :
            /\ using' = [using EXCEPT ![c] = k]
            /\ call' = [call EXCEPT ![c] = "published"] \/ call' = [call EXCEPT ![c] = "checked"]
      BY <1>2 DEF PublishTxNotConnected, PublishTxCheck, SendTapped
    <3> QED BY <3>1 DEF CalledHasCopy, TypeInv, TypeOK
  <2> QED BY <2>1, <2>2
<1>3. CASE \E c \in Calls : PublishTxChecked(c)
  <2>1. PICK c \in Calls : PublishTxChecked(c)
    BY <1>3
  <2>2. using[c] \in Calls
    BY <2>1 DEF PublishTxChecked, CalledHasCopy, TypeInv, TypeOK
  <2>3. held' \in Calls \cup {NoCall} /\ using' \in [Calls -> Calls \cup {NoCall}]
    BY <2>1 DEF PublishTxChecked, TypeInv, TypeOK
  <2>4. TypeInv'
    BY <2>1, <2>2, <2>3, PublishType DEF PublishTxChecked
  <2>5. CalledHasCopy'
    BY <2>1 DEF PublishTxChecked, DoPublish, CalledHasCopy, TypeInv, TypeOK
  <2> QED BY <2>4, <2>5
<1>4. CASE \E r \in ringing : TxCallback(r)
  BY <1>4, CallbackType DEF TxCallback, CalledHasCopy
<1>5. CASE UNCHANGED vars
  BY <1>5 DEF vars, TypeInv, TypeOK, KnownHasCopy, CalledHasCopy, InAllTx, Listed,
              mgrVars, walletVars, callVars, netVars
<1>7. CASE ManagerStep /\ TypeInv'
  <2>1. UNCHANGED <<using, call>>
    <3>1. CASE Quiet
      BY <3>1 DEF Quiet, callVars
    <3>2. CASE \E t \in Tx : Accept(t) \/ Refuse(t) \/ Confirm(t)
      BY <3>2 DEF Accept, Refuse, Confirm
    <3>3. CASE \E S \in SUBSET Tx, e \in Errors : Cancel(S, e)
      BY <3>3 DEF Cancel
    <3>4. CASE \E p \in Peers : Transmit(p)
      BY <3>4 DEF Transmit, callVars
    <3> QED BY <1>7, <3>1, <3>2, <3>3, <3>4 DEF ManagerStep
  <2> QED BY <1>7, <2>1 DEF CalledHasCopy
<1> QED BY <1>1, <1>2, <1>3, <1>4, <1>5, <1>7, ManagerSteps DEF CallStep

\* Every variable has its type, whatever peers, publishers and the user do.
THEOREM TypeCorrect == Spec => []TypeOK
<1>1. Init => TypeInv /\ CalledHasCopy
  BY InitType DEF Init, CalledHasCopy
<1>2. TypeInv /\ CalledHasCopy /\ [Next]_vars => (TypeInv /\ CalledHasCopy)'
  BY StepType
<1>3. TypeInv => TypeOK
  BY DEF TypeInv
<1> QED BY <1>1, <1>2, <1>3, PTL DEF Spec

-----------------------------------------------------------------------------
(* The relay lists. *)

\* A peer becomes a relay only while its thread runs, and is forgotten when it leaves.
LEMMA RelaysStep ==
    ASSUME TypeInv, RelaysAreConnected, [Next]_vars
    PROVE  RelaysAreConnected'
<1>1. txRelays \in [Tx -> SUBSET Peers] /\ status \in [Peers -> PeerStatus]
  BY DEF TypeInv, TypeOK
<1>2. CASE \E p \in Peers, e \in Errors : PeerDisconnected(p, e)
  <2>1. PICK p \in Peers :
          txRelays' = ForgetRelays(p) /\ status' = [status EXCEPT ![p] = "off"]
    BY <1>2 DEF PeerDisconnected
  <2> QED BY <1>1, <2>1 DEF RelaysAreConnected, ForgetRelays
<1>3. CASE \E p \in Peers, t \in Tx : HasTx(p, t) \/ RelayedTx(p, t) \/ RequestedTx(p, t)
  <2>1. PICK p \in Peers, t \in Tx :
          /\ IsConnected(p) /\ UNCHANGED status
          /\ txRelays' = AddPeer(txRelays, t, p) \/ UNCHANGED txRelays
    BY <1>3 DEF HasTx, RelayedTx, RequestedTx, Running
  <2> QED BY <1>1, <2>1 DEF RelaysAreConnected, AddPeer, IsConnected
<1>4. CASE \E p \in Peers, t \in Tx : DataNotfound(p, t)
  <2>1. PICK p \in Peers, t \in Tx : UNCHANGED status /\ txRelays' = RemovePeer(txRelays, t, p)
    BY <1>4 DEF DataNotfound
  <2> QED BY <1>1, <2>1 DEF RelaysAreConnected, RemovePeer
<1>5. CASE \E p \in Peers, t \in Tx : BlockConfirms(p, t)
  <2>1. PICK t \in Tx : UNCHANGED status /\ txRelays' = [txRelays EXCEPT ![t] = {}]
    BY <1>5 DEF BlockConfirms
  <2> QED BY <1>1, <2>1 DEF RelaysAreConnected
<1>6. CASE /\ UNCHANGED txRelays
           /\ \A p \in Peers : status'[p] = "off" => status[p] = "off"
  BY <1>1, <1>6 DEF RelaysAreConnected
<1>7. CASE \E p \in Peers : Connect(p) \/ PeerConnectedUnfit(p) \/ PeerConnectedOther(p) \/ ThreadEnds(p)
  <2>1. PICK p \in Peers, st \in PeerStatus \ {"off"} :
          UNCHANGED txRelays /\ status' = [status EXCEPT ![p] = st]
    BY <1>7 DEF Connect, PeerConnectedUnfit, PeerConnectedOther, ThreadEnds, DidConnect, mgrVars,
                PeerConnectedVars, PeerStatus
  <2> QED BY <1>1, <1>6, <2>1
<1>8. CASE \E p, q \in Peers : PeerConnectedDownload(p, q)
  <2>1. PICK p \in Peers :
          /\ UNCHANGED txRelays
          /\ status' = [r \in Peers |-> CASE r = p -> "connected"
                                          [] r = manager.downloadPeer /\ IsConnected(r) -> "closed"
                                          [] OTHER -> status[r]]
    BY <1>8 DEF PeerConnectedDownload, PeerConnectedVars
  <2> QED BY <1>6, <2>1
<1>9. CASE \/ CallStep \/ UNCHANGED vars
           \/ \E p \in Peers : SendTx(p) \/ Pong(p) \/ EndPong(p) \/ ChainDownloaded(p)
           \/ \E p \in Peers, t \in Tx : InvTx(p, t)
           \/ \E t \in Tx : Conflict(t)
  <2>1. UNCHANGED <<txRelays, status>>
    <3>1. CASE CallStep
      BY <3>1 DEF CallStep, PublishTx, PublishTxNotConnected, PublishTxCheck, PublishTxChecked, DoPublish,
                  TxCallback, mgrVars
    <3>2. CASE \E p \in Peers : Pong(p) \/ EndPong(p)
      <4>1. PICK p \in Peers, b \in BOOLEAN : CallPong(p, b)
        BY <3>2 DEF Pong, EndPong
      <4>2. UNCHANGED status
        BY <4>1 DEF CallPong
      <4>3. peer[p].pongs \in Seq(Pongs) /\ peer[p].pongs # <<>>
        BY <4>1 DEF CallPong, TypeInv, TypeOK, Contexts
      <4>4. Head(peer[p].pongs) \in Pongs
        BY <4>3
      <4>5. UNCHANGED txRelays
        BY <4>1, <4>4 DEF CallPong, Pongs, PublishTxInvDone, RequestUnrelayedTxGetdataDone, MempoolDone,
                          LoadBloomFilterDone, mgrVars
      <4> QED BY <4>2, <4>5
    <3> QED BY <1>9, <3>1, <3>2 DEF vars, mgrVars, SendTx, ChainDownloaded, InvTx, Conflict
  <2> QED BY <1>6, <2>1
<1> QED BY <1>2, <1>3, <1>4, <1>5, <1>7, <1>8, <1>9 DEF Next, CallStep

\* BRPeerManagerRelayCount counts connected peers only: _peerDisconnected takes a peer out of every
\* list before it may come back.
THEOREM RelaysConnected == Spec => []RelaysAreConnected
<1>1. Init => TypeInv /\ CalledHasCopy /\ RelaysAreConnected
  BY InitType DEF Init, CalledHasCopy, RelaysAreConnected
<1>2. TypeInv /\ CalledHasCopy /\ RelaysAreConnected /\ [Next]_vars
        => (TypeInv /\ CalledHasCopy /\ RelaysAreConnected)'
  BY StepType, RelaysStep
<1> QED BY <1>1, <1>2, PTL DEF Spec

-----------------------------------------------------------------------------
(* The copies of transactions and who may use them, when a call publishes a transaction of its own *)
(* (KeepsTransaction is FALSE).                                                                    *)

\* Every call that has begun was given the copy made for it.
OwnCopies ==
    /\ held = NoCall
    /\ \A c \in Calls : call[c] # "idle" => using[c] = c

\* A listed copy is one of that transaction.  While its callback is in the list it is that of the
\* copy's own call; when it has been taken out, the wallet knows the transaction.
ListedCopies ==
    \A t \in Listed :
       /\ published[t].copy \in Calls => TxOf[published[t].copy] = t
       /\ published[t].callback = NoCall => InAllTx(t)
       /\ published[t].callback # NoCall => published[t].copy = published[t].callback

WalletCopies == \A t \in Tx : copy[t] \in Calls => TxOf[copy[t]] = t

\* What a thread sends the wallet knows.
SendingKnown == \A p \in Peers : peer[p].sending \in Calls => InAllTx(TxOf[peer[p].sending])

\* A pending copy is nobody's but the list's, and its publisher has not been told anything.
PendingUnused ==
    \A t \in Listed : published[t].callback # NoCall =>
       /\ told[published[t].callback] = <<>>
       /\ \A r \in ringing : r.call # published[t].callback
       /\ copy[t] # published[t].callback
       /\ \A p \in Peers : peer[p].sending # published[t].callback

\* A copy that the list, the wallet or a thread has.
InUse(c) ==
    \/ \E t \in Listed : published[t].copy = c
    \/ \E t \in Tx : copy[t] = c
    \/ \E p \in Peers : peer[p].sending = c

\* Nothing has happened to the copy of a call that has not reached the list.
UnpublishedUnused ==
    \A c \in Calls : call[c] # "published" =>
       told[c] = <<>> /\ (\A r \in ringing : r.call # c) /\ c \notin freed /\ ~InUse(c)

\* A publisher is told once.
ToldOnce ==
    /\ \A r \in ringing : told[r.call] = <<>>
    /\ \A r, s \in ringing : r.call = s.call => r = s
    /\ \A c \in Calls : told[c] = <<>> \/ \E e \in Errors : told[c] = <<e>>

\* A publisher that was told of success, or is about to be.
Succeeds(c) == told[c] = <<"OK">> \/ \E r \in ringing : r.call = c /\ r.error = "OK"

SuccessKnown == \A c \in Calls : Succeeds(c) => InAllTx(TxOf[c])

\* A freed copy was a publisher's that has failed or will, and nobody has it.
FreedUnused == \A c \in freed : c \in Calls /\ ~InUse(c) /\ ~Succeeds(c)

CopyInv ==
    /\ OwnCopies /\ ListedCopies /\ WalletCopies /\ SendingKnown /\ PendingUnused
    /\ UnpublishedUnused /\ ToldOnce /\ SuccessKnown /\ FreedUnused

\* The initial state.
LEMMA InitCopies == Init => CopyInv
  BY DEF Init, CopyInv, OwnCopies, ListedCopies, WalletCopies, SendingKnown, PendingUnused, InUse,
         UnpublishedUnused, ToldOnce, Succeeds, SuccessKnown, FreedUnused, Listed, Fresh

\* A step that leaves the list, the wallet's copies and the calls alone.
LEMMA UntouchedCopies ==
    ASSUME TypeInv, CopyInv, KnownSame, SendingShrinks, UNCHANGED <<published, copy, callVars>>
    PROVE  CopyInv'
<1> USE DEF CopyInv, callVars
<1>1. Listed' = Listed /\ \A t \in Tx : InAllTx(t)' <=> InAllTx(t)
  BY DEF Listed, KnownSame, InAllTx
<1>2. Listed \subseteq Tx
  BY DEF TypeInv, TypeOK
<1>3. \A c : InUse(c)' /\ c # NoCall => InUse(c)
  BY <1>1 DEF InUse, SendingShrinks
<1>4. OwnCopies' /\ WalletCopies' /\ ToldOnce'
  BY DEF OwnCopies, WalletCopies, ToldOnce
<1>5. ListedCopies'
  BY <1>1, <1>2 DEF ListedCopies
<1>6. SendingKnown'
  BY <1>1 DEF SendingKnown, SendingShrinks
<1>7. PendingUnused'
  BY <1>1 DEF PendingUnused, SendingShrinks
<1>8. UnpublishedUnused'
  BY <1>3 DEF UnpublishedUnused
<1>9. \A c : Succeeds(c)' <=> Succeeds(c)
  BY DEF Succeeds
<1>10. SuccessKnown' /\ FreedUnused'
  BY <1>1, <1>3, <1>9 DEF SuccessKnown, FreedUnused
<1> QED BY <1>4, <1>5, <1>6, <1>7, <1>8, <1>10

\* The callback that is taken out of the list, if there is one.
LEMMA TakenIs ==
    ASSUME TypeInv, CopyInv, NEW t \in Tx, NEW e, NEW r \in Taken(t, e)
    PROVE  /\ t \in Listed /\ published[t].callback # NoCall
           /\ r.call = published[t].callback /\ r.error = e
           /\ r = [call |-> r.call, error |-> e]
           /\ r.call \in Calls /\ published[t].copy = r.call /\ TxOf[r.call] = t
           /\ told[r.call] = <<>> /\ \A s \in ringing : s.call # r.call
<1>1. t \in Listed /\ published[t].callback # NoCall /\ r = [call |-> published[t].callback, error |-> e]
  BY DEF Taken, Pending, Listed
<1>2. published[t].callback \in Calls
  BY <1>1 DEF TypeInv, TypeOK, Entries
<1> QED BY <1>1, <1>2 DEF CopyInv, ListedCopies, PendingUnused

\* The copy that the wallet takes over is the listed one, whose callback leaves the list.
LEMMA AcceptCopies ==
    ASSUME TypeInv, TypeInv', CopyInv, NEW t \in Tx, Accept(t)
    PROVE  CopyInv'
<1>1. /\ \A u \in Tx : InAllTx(u)' <=> InAllTx(u) \/ u = t
      /\ \A u \in Tx : copy'[u] = copy[u] \/ copy'[u] = Relayed
                       \/ (u = t /\ t \in Listed /\ copy'[u] = published[t].copy)
      /\ \A u \in Tx : u # t => copy'[u] = copy[u]
      /\ UNCHANGED <<held, using, call, told, freed>>
      /\ ringing' = ringing \cup Taken(t, "OK")
  BY DEF Accept, InAllTx
<1>2. \A u \in Listed :
          /\ published'[u].copy = published[u].copy
          /\ published'[u].callback = IF u = t THEN NoCall ELSE published[u].callback
  BY DEF Accept
<1>3. \A u \in Listed' \ Listed :
          /\ published'[u].callback = NoCall
          /\ InAllTx(u)'
          /\ published'[u].copy = Relayed \/ published'[u].copy = copy[u]
  BY DEF Accept, InAllTx
<1>4. \A p \in Peers : \/ peer'[p].sending = peer[p].sending
                       \/ t \in Listed /\ peer'[p].sending = published[t].copy
  BY DEF Accept
<1>5. Listed \subseteq Tx /\ Listed' \subseteq Tx
  BY DEF TypeInv, TypeOK
<1>6. \A c \in Calls : InUse(c)' => InUse(c)
  BY <1>1, <1>2, <1>3, <1>4, <1>5 DEF InUse
<1> USE DEF CopyInv
<1>7. OwnCopies'
  BY <1>1 DEF OwnCopies
<1>8. ListedCopies'
  <2> SUFFICES ASSUME NEW u \in Listed'
               PROVE  /\ published'[u].copy \in Calls => TxOf[published'[u].copy] = u
                      /\ published'[u].callback = NoCall => InAllTx(u)'
                      /\ published'[u].callback # NoCall => published'[u].copy = published'[u].callback
    BY DEF ListedCopies
  <2>1. CASE u \in Listed
    BY <1>1, <1>2, <1>5, <2>1 DEF ListedCopies
  <2>2. CASE u \notin Listed
    BY <1>1, <1>3, <1>5, <2>2 DEF WalletCopies
  <2> QED BY <2>1, <2>2
<1>9. WalletCopies'
  BY <1>1 DEF WalletCopies, ListedCopies
<1>10. SendingKnown'
  BY <1>1, <1>4 DEF SendingKnown, ListedCopies
<1>11. PendingUnused'
  <2> SUFFICES ASSUME NEW u \in Listed', published'[u].callback # NoCall
               PROVE  /\ told'[published'[u].callback] = <<>>
                      /\ \A r \in ringing' : r.call # published'[u].callback
                      /\ copy'[u] # published'[u].callback
                      /\ \A p \in Peers : peer'[p].sending # published'[u].callback
    BY DEF PendingUnused
  <2>1. u \in Listed /\ u # t /\ published'[u].callback = published[u].callback
    BY <1>2, <1>3
  <2>2. published[u].callback \in Calls /\ TxOf[published[u].callback] = u
    BY <2>1 DEF TypeInv, TypeOK, Entries, ListedCopies
  <2>3. \A r \in Taken(t, "OK") : r.call # published[u].callback
    BY <2>1, <2>2, TakenIs
  <2>4. t \in Listed => published[t].copy # published[u].callback
    BY <2>1, <2>2 DEF ListedCopies
  <2> QED BY <1>1, <1>4, <1>5, <2>1, <2>3, <2>4 DEF PendingUnused
<1>12. UnpublishedUnused'
  <2>1. ASSUME NEW c \in Calls, call[c] # "published", NEW r \in Taken(t, "OK") PROVE r.call # c
    <3>1. ~InUse(c)
      BY <2>1 DEF UnpublishedUnused
    <3> QED BY <3>1, TakenIs DEF InUse
  <2> QED BY <1>1, <1>6, <2>1 DEF UnpublishedUnused
<1>13. ToldOnce'
  <2>1. \A r \in ringing' : told'[r.call] = <<>>
    BY <1>1, TakenIs DEF ToldOnce
  <2>2. \A r, s \in ringing' : r.call = s.call => r = s
    <3>1. \A r, s \in Taken(t, "OK") : r.call = s.call => r = s
      BY TakenIs
    <3>2. \A r \in Taken(t, "OK") : \A s \in ringing : r.call # s.call
      BY TakenIs
    <3> QED BY <1>1, <3>1, <3>2 DEF ToldOnce
  <2> QED BY <1>1, <2>1, <2>2 DEF ToldOnce
<1>14. \A c \in Calls : Succeeds(c)' => Succeeds(c) \/ \E r \in Taken(t, "OK") : r.call = c
  BY <1>1 DEF Succeeds
<1>15. SuccessKnown'
  BY <1>1, <1>14, TakenIs DEF SuccessKnown
<1>16. FreedUnused'
  <2>1. ASSUME NEW c \in freed, NEW r \in Taken(t, "OK") PROVE r.call # c
    <3>1. ~InUse(c)
      BY DEF FreedUnused
    <3> QED BY <3>1, TakenIs DEF InUse
  <2> QED BY <1>1, <1>6, <1>14, <2>1 DEF FreedUnused
<1> QED BY <1>7, <1>8, <1>9, <1>10, <1>11, <1>12, <1>13, <1>15, <1>16

\* Transactions S leave the list: the copies of F, which are pending, are freed, and the publishers R
\* are to be told of a failure.
Removal(S, F, R) ==
    /\ published' = Without(published, S)
    /\ F \subseteq S \cap Pending(published)
    /\ freed' = freed \cup {published[t].copy : t \in F}
    /\ ringing' = ringing \cup R
    /\ \A r \in R : \E t \in S, e \in Errors \ {"OK"} : r \in Taken(t, e)
    /\ \A r, s \in R : r.call = s.call => r = s
    /\ KnownSame
    /\ \A p \in Peers : \/ peer'[p].sending \in {peer[p].sending, NoCall}
                        \/ \E t \in Listed \ F : InAllTx(t) /\ t \in S /\ peer'[p].sending = published[t].copy
    /\ UNCHANGED <<copy, held, using, call, told>>

LEMMA RemovalCopies ==
    ASSUME TypeInv, TypeInv', CopyInv, NEW S \in SUBSET Tx, NEW F, NEW R, Removal(S, F, R)
    PROVE  CopyInv'
<1>1. /\ \A u \in Tx : InAllTx(u)' <=> InAllTx(u)
      /\ UNCHANGED <<copy, held, using, call, told>>
      /\ ringing' = ringing \cup R
      /\ F \subseteq S /\ F \subseteq Listed /\ \A t \in F : published[t].callback # NoCall
      /\ freed' = freed \cup {published[t].copy : t \in F}
  BY DEF Removal, InAllTx, KnownSame, Pending, Listed
<1>2. Listed' = Listed \ S /\ \A u \in Listed' : published'[u] = published[u]
  <2>1. published' = Without(published, S)
    BY DEF Removal
  <2> QED BY <2>1 DEF Without, Listed
<1>3. \A p \in Peers : \/ peer'[p].sending \in {peer[p].sending, NoCall}
                       \/ \E t \in Listed \ F : InAllTx(t) /\ t \in S /\ peer'[p].sending = published[t].copy
  BY DEF Removal
<1>4. Listed \subseteq Tx
  BY DEF TypeInv, TypeOK
<1>5. \A c \in Calls : InUse(c)' => InUse(c)
  BY <1>1, <1>2, <1>3 DEF InUse
<1>6. ASSUME NEW r \in R
      PROVE  \E t \in S : /\ t \in Listed /\ published[t].callback = r.call /\ published[t].copy = r.call
                          /\ r.call \in Calls /\ TxOf[r.call] = t /\ r.error # "OK"
                          /\ told[r.call] = <<>> /\ \A s \in ringing : s.call # r.call
  <2>1. PICK t \in S, e \in Errors \ {"OK"} : r \in Taken(t, e)
    BY DEF Removal
  <2>2. r.error = e
    BY <2>1, TakenIs
  <2> QED BY <2>1, <2>2, TakenIs
<1>7. ASSUME NEW t \in F
      PROVE  /\ published[t].copy \in Calls /\ TxOf[published[t].copy] = t
             /\ published[t].copy = published[t].callback
  <2>1. t \in Listed /\ published[t].callback # NoCall
    BY <1>1
  <2> QED BY <2>1 DEF CopyInv, ListedCopies, TypeInv, TypeOK, Entries
<1> USE DEF CopyInv
<1>8. OwnCopies' /\ WalletCopies'
  BY <1>1 DEF OwnCopies, WalletCopies
<1>9. ListedCopies'
  BY <1>1, <1>2, <1>4 DEF ListedCopies
<1>10. SendingKnown'
  BY <1>1, <1>3, <1>4 DEF SendingKnown, ListedCopies
<1>11. PendingUnused'
  <2> SUFFICES ASSUME NEW u \in Listed', published'[u].callback # NoCall
               PROVE  /\ told'[published'[u].callback] = <<>>
                      /\ \A r \in ringing' : r.call # published'[u].callback
                      /\ copy'[u] # published'[u].callback
                      /\ \A p \in Peers : peer'[p].sending # published'[u].callback
    BY DEF PendingUnused
  <2>1. u \in Listed /\ u \notin S /\ published'[u] = published[u]
    BY <1>2
  <2>2. published[u].callback \in Calls /\ TxOf[published[u].callback] = u
    BY <2>1 DEF TypeInv, TypeOK, Entries, ListedCopies
  <2>3. \A r \in R : r.call # published[u].callback
    BY <1>6, <2>1, <2>2
  <2>4. \A t \in Listed \cap S : published[t].copy # published[u].callback
    BY <2>1, <2>2 DEF ListedCopies
  <2> QED BY <1>1, <1>3, <2>1, <2>2, <2>3, <2>4 DEF PendingUnused
<1>12. UnpublishedUnused'
  <2>1. ASSUME NEW c \in Calls, call[c] # "published"
        PROVE  (\A r \in R : r.call # c) /\ c \notin {published[t].copy : t \in F}
    <3>1. ~InUse(c)
      BY <2>1 DEF UnpublishedUnused
    <3> QED BY <1>1, <1>6, <3>1 DEF InUse
  <2> QED BY <1>1, <1>5, <2>1 DEF UnpublishedUnused
<1>13. ToldOnce'
  <2>1. \A r \in ringing' : told'[r.call] = <<>>
    BY <1>1, <1>6 DEF ToldOnce
  <2>2. \A r, s \in R : r.call = s.call => r = s
    BY DEF Removal
  <2>3. \A r, s \in ringing' : r.call = s.call => r = s
    BY <1>1, <1>6, <2>2 DEF ToldOnce
  <2> QED BY <1>1, <2>1, <2>3 DEF ToldOnce
<1>14. \A c \in Calls : Succeeds(c)' => Succeeds(c)
  BY <1>1, <1>6 DEF Succeeds
<1>15. SuccessKnown'
  BY <1>1, <1>14 DEF SuccessKnown
<1>16. FreedUnused'
  <2>1. ASSUME NEW t \in F, NEW c, c = published[t].copy
        PROVE  ~InUse(c)' /\ ~Succeeds(c)'
    <3>1. t \in Listed /\ t \in S /\ c \in Calls /\ TxOf[c] = t /\ published[t].callback = c
      BY <1>1, <1>7, <2>1
    <3>2. /\ told[c] = <<>> /\ (\A r \in ringing : r.call # c) /\ copy[t] # c
          /\ \A p \in Peers : peer[p].sending # c
      BY <3>1 DEF PendingUnused
    <3>3. \A u \in Listed : u # t => published[u].copy # c
      BY <3>1 DEF ListedCopies
    <3>4. \A u \in Tx : copy[u] # c
      BY <3>1, <3>2 DEF WalletCopies
    <3>5. ~InUse(c)'
      BY <1>1, <1>2, <1>3, <3>1, <3>2, <3>3, <3>4 DEF InUse
    <3>6. ~Succeeds(c)
      BY <3>2 DEF Succeeds
    <3>7. ~Succeeds(c)'
      BY <1>14, <3>1, <3>6
    <3> QED BY <3>5, <3>7
  <2> QED BY <1>1, <1>5, <1>7, <1>14, <2>1 DEF FreedUnused
<1> QED BY <1>8, <1>9, <1>10, <1>11, <1>12, <1>13, <1>15, <1>16

\* What is freed unless the wallet knows it was pending.
LEMMA FreeUnlessKnownIs ==
    ASSUME TypeInv, CopyInv, NEW t \in Tx
    PROVE  \E F \in SUBSET ({t} \cap Pending(published)) :
              /\ FreeUnlessKnown(t) = freed \cup {published[u].copy : u \in F}
              /\ InAllTx(t) => F = {}
<1>1. CASE t \in Listed /\ ~InAllTx(t)
  <2>1. {t} \in SUBSET ({t} \cap Pending(published))
    BY <1>1 DEF CopyInv, ListedCopies, Pending, Listed
  <2>2. FreeUnlessKnown(t) = freed \cup {published[u].copy : u \in {t}}
    BY <1>1 DEF FreeUnlessKnown
  <2> QED BY <1>1, <2>1, <2>2
<1>2. CASE ~(t \in Listed /\ ~InAllTx(t))
  <2>1. FreeUnlessKnown(t) = freed \cup {published[u].copy : u \in {}}
    BY <1>2 DEF FreeUnlessKnown
  <2> QED BY <2>1
<1> QED BY <1>1, <1>2

\* _peerRequestedTx frees a listed copy only if the wallet does not know it.
LEMMA RefuseCopies ==
    ASSUME TypeInv, TypeInv', CopyInv, NEW t \in Tx, Refuse(t)
    PROVE  CopyInv'
<1>1. PICK F \in SUBSET ({t} \cap Pending(published)) :
              /\ freed' = freed \cup {published[u].copy : u \in F}
              /\ InAllTx(t) => F = {}
  BY FreeUnlessKnownIs DEF Refuse
<1>2. \A r, s \in Taken(t, "EINVAL") : r.call = s.call => r = s
  BY TakenIs
<1>3. Removal({t}, F, Taken(t, "EINVAL"))
  BY <1>1, <1>2 DEF Refuse, Removal, KnownSame, Errors
<1> QED BY <1>3, RemovalCopies

\* So does a block.
LEMMA ConfirmCopies ==
    ASSUME TypeInv, TypeInv', CopyInv, NEW t \in Tx, Confirm(t)
    PROVE  CopyInv'
<1>1. PICK F \in SUBSET ({t} \cap Pending(published)) :
              freed' = freed \cup {published[u].copy : u \in F}
  BY FreeUnlessKnownIs DEF Confirm
<1>2. Removal({t}, F, {})
  BY <1>1 DEF Confirm, Removal, SendingShrinks
<1> QED BY <1>2, RemovalCopies

\* The callbacks of cancelled publications.
LEMMA CancelledIs ==
    ASSUME TypeInv, CopyInv, NEW S, S \subseteq Pending(published), NEW e
    PROVE  /\ \A r \in Cancelled(S, e) : \E t \in S : r \in Taken(t, e)
           /\ \A r, s \in Cancelled(S, e) : r.call = s.call => r = s
  BY DEF Cancelled, Taken

\* A timeout frees pending copies, which nobody else has.
LEMMA CancelCopies ==
    ASSUME TypeInv, TypeInv', CopyInv, NEW S \in SUBSET Tx, NEW e \in Errors, Cancel(S, e)
    PROVE  CopyInv'
<1>1. Removal(S, S, Cancelled(S, e))
  BY CancelledIs DEF Cancel, Removal, SendingShrinks
<1> QED BY <1>1, RemovalCopies

\* Each call gets the copy made for it.
LEMMA TappedOwn ==
    ASSUME ~KeepsTransaction, TypeInv, CopyInv, NEW c \in Calls, NEW k \in Calls, SendTapped(c, k)
    PROVE  k = c /\ call[c] = "idle" /\ held' = NoCall /\ using' = [using EXCEPT ![c] = c]
  BY DEF SendTapped, CopyInv, OwnCopies

\* What the list has more when a call publishes its own transaction.
LEMMA ListedByCall ==
    ASSUME TypeInv, NEW c \in Calls, published' = AddTxToPublishList(TxOf[c], c, c)
    PROVE  /\ Listed \subseteq Listed' /\ TxOf[c] \in Listed'
           /\ \A u \in Listed : published'[u] = published[u]
           /\ \A u \in Listed' \ Listed :
                 \/ u = TxOf[c] /\ published'[u].copy = c /\ published'[u].callback = c
                 \/ u \in Tx /\ InAllTx(u) /\ published'[u].copy = copy[u] /\ published'[u].callback = NoCall
<1> DEFINE t == TxOf[c]
<1>1. t \in Tx
  OBVIOUS
<1>2. CASE t \in Listed
  BY <1>2 DEF AddTxToPublishList, Listed
<1>3. CASE t \notin Listed
  <2>1. published' = [u \in Listed \cup Added(t) |->
                        IF u \in Listed THEN published[u]
                        ELSE IF u = t THEN [copy |-> c, callback |-> c]
                        ELSE [copy |-> copy[u], callback |-> NoCall]]
    BY <1>3 DEF AddTxToPublishList
  <2>2. Listed' = Listed \cup Added(t)
    BY <2>1 DEF Listed
  <2>3. Added(t) \subseteq {t} \cup Unconfirmed /\ t \in Added(t)
    BY <1>1, AddedType
  <2>4. ASSUME NEW u \in Listed' \ Listed, u # t
        PROVE  u \in Tx /\ InAllTx(u) /\ published'[u].copy = copy[u] /\ published'[u].callback = NoCall
    BY <2>1, <2>2, <2>3, <2>4 DEF Unconfirmed, InAllTx
  <2>5. published'[t].copy = c /\ published'[t].callback = c
    BY <1>3, <2>1, <2>3
  <2>6. \A u \in Listed : published'[u] = published[u]
    BY <2>1
  <2> HIDE DEF t
  <2>7. \A u \in Listed' \ Listed :
           \/ u = t /\ published'[u].copy = c /\ published'[u].callback = c
           \/ u \in Tx /\ InAllTx(u) /\ published'[u].copy = copy[u] /\ published'[u].callback = NoCall
    BY <2>4, <2>5
  <2> QED BY <2>2, <2>3, <2>6, <2>7 DEF t
<1> QED BY <1>2, <1>3

\* A call reaches the list.
LEMMA PublishCopies ==
    ASSUME TypeInv, TypeInv', CopyInv, NEW c \in Calls, DoPublish(c, c), call[c] # "published",
           held' = NoCall, using' = [using EXCEPT ![c] = c],
           \A p \in Peers : peer'[p].sending = peer[p].sending
    PROVE  CopyInv'
<1>1. /\ published' = AddTxToPublishList(TxOf[c], c, c)
      /\ call' = [call EXCEPT ![c] = "published"]
      /\ UNCHANGED <<wallet, copy, ringing, told, freed>>
  BY DEF DoPublish, walletVars
<1>2. /\ Listed \subseteq Listed'
      /\ \A u \in Listed : published'[u] = published[u]
      /\ \A u \in Listed' \ Listed :
            \/ u = TxOf[c] /\ published'[u].copy = c /\ published'[u].callback = c
            \/ u \in Tx /\ InAllTx(u) /\ published'[u].copy = copy[u] /\ published'[u].callback = NoCall
  BY <1>1, ListedByCall
<1>3. told[c] = <<>> /\ (\A r \in ringing : r.call # c) /\ c \notin freed /\ ~InUse(c)
  BY DEF CopyInv, UnpublishedUnused
<1>4. \A t \in Tx : InAllTx(t)' <=> InAllTx(t)
  BY <1>1 DEF InAllTx
<1>5. \A d : InUse(d)' => InUse(d) \/ d = c
  BY <1>1, <1>2 DEF InUse
<1>6. Listed' \subseteq Tx
  BY DEF TypeInv, TypeOK
<1> USE DEF CopyInv
<1>7. OwnCopies'
  BY <1>1 DEF OwnCopies, TypeInv, TypeOK
<1>8. WalletCopies' /\ ToldOnce'
  BY <1>1 DEF WalletCopies, ToldOnce
<1>9. ListedCopies'
  BY <1>2, <1>4, <1>6 DEF ListedCopies, WalletCopies
<1>10. SendingKnown'
  BY <1>4 DEF SendingKnown
<1>11. PendingUnused'
  BY <1>1, <1>2, <1>3 DEF PendingUnused, InUse
<1>12. UnpublishedUnused'
  BY <1>1, <1>5 DEF UnpublishedUnused, TypeInv, TypeOK
<1>13. SuccessKnown' /\ FreedUnused'
  <2>1. \A d : Succeeds(d)' <=> Succeeds(d)
    BY <1>1 DEF Succeeds
  <2> QED BY <1>1, <1>3, <1>4, <1>5, <2>1 DEF SuccessKnown, FreedUnused
<1> QED BY <1>7, <1>8, <1>9, <1>10, <1>11, <1>12, <1>13

\* A call fails at once: its copy is freed before anybody has it.
LEMMA NotConnectedCopies ==
    ASSUME ~KeepsTransaction, TypeInv, TypeInv', CopyInv, NEW c \in Calls, NEW k \in Calls,
           PublishTxNotConnected(c, k)
    PROVE  CopyInv'
<1>1. k = c /\ call[c] = "idle" /\ held' = NoCall /\ using' = [using EXCEPT ![c] = c]
  BY TappedOwn DEF PublishTxNotConnected
<1>2. /\ call' = [call EXCEPT ![c] = "published"]
      /\ told' = [told EXCEPT ![c] = Append(@, "ENOTCONN")]
      /\ freed' = freed \cup {c}
      /\ UNCHANGED <<published, wallet, copy, ringing, peer>>
  BY <1>1 DEF PublishTxNotConnected, mgrVars, walletVars
<1>3. told[c] = <<>> /\ (\A r \in ringing : r.call # c) /\ c \notin freed /\ ~InUse(c)
  BY <1>1 DEF CopyInv, UnpublishedUnused
<1>4. told'[c] = <<"ENOTCONN">> /\ \A d \in Calls : d # c => told'[d] = told[d]
  BY <1>2, <1>3 DEF TypeInv, TypeOK
<1>5. Listed' = Listed /\ (\A t \in Tx : InAllTx(t)' <=> InAllTx(t)) /\ \A d : InUse(d)' <=> InUse(d)
  BY <1>2 DEF Listed, InAllTx, InUse
<1>6. \A d \in Calls : Succeeds(d)' => Succeeds(d) /\ d # c
  <2>1. <<"ENOTCONN">> # <<"OK">>
    OBVIOUS
  <2> QED BY <1>2, <1>3, <1>4, <2>1 DEF Succeeds
<1> USE DEF CopyInv
<1>7. OwnCopies'
  BY <1>1, <1>2 DEF OwnCopies, TypeInv, TypeOK
<1>8. WalletCopies' /\ SendingKnown'
  BY <1>2, <1>5 DEF WalletCopies, SendingKnown
<1>9. ListedCopies'
  BY <1>2, <1>5 DEF ListedCopies, TypeInv, TypeOK
<1>10. PendingUnused'
  <2>1. \A t \in Listed : published[t].callback # NoCall => published[t].callback \in Calls /\ published[t].callback # c
    BY <1>3 DEF InUse, ListedCopies, TypeInv, TypeOK, Entries
  <2> QED BY <1>2, <1>4, <1>5, <2>1 DEF PendingUnused
<1>11. UnpublishedUnused'
  BY <1>2, <1>4, <1>5 DEF UnpublishedUnused, TypeInv, TypeOK
<1>12. ToldOnce'
  <2>1. \A r \in ringing : r.call \in Calls /\ r.call # c
    BY <1>3 DEF TypeInv, TypeOK
  <2> QED BY <1>2, <1>4, <2>1 DEF ToldOnce, Errors
<1>13. SuccessKnown'
  BY <1>5, <1>6 DEF SuccessKnown
<1>14. FreedUnused'
  BY <1>2, <1>3, <1>5, <1>6 DEF FreedUnused
<1> QED BY <1>7, <1>8, <1>9, <1>10, <1>11, <1>12, <1>13, <1>14

\* A call looks at the network before it publishes.
LEMMA CheckCopies ==
    ASSUME ~KeepsTransaction, TypeInv, CopyInv, NEW c \in Calls, NEW k \in Calls, PublishTxCheck(c, k)
    PROVE  CopyInv'
<1>1. k = c /\ call[c] = "idle" /\ held' = NoCall /\ using' = [using EXCEPT ![c] = c]
  BY TappedOwn DEF PublishTxCheck
<1>2. /\ call' = [call EXCEPT ![c] = "checked"]
      /\ UNCHANGED <<published, wallet, copy, ringing, told, freed, peer>>
  BY DEF PublishTxCheck, mgrVars, walletVars
<1>3. Listed' = Listed /\ (\A t : InAllTx(t)' <=> InAllTx(t)) /\ (\A d : InUse(d)' <=> InUse(d))
      /\ \A d : Succeeds(d)' <=> Succeeds(d)
  BY <1>2 DEF Listed, InAllTx, InUse, Succeeds
<1> USE DEF CopyInv
<1>4. OwnCopies'
  BY <1>1, <1>2 DEF OwnCopies, TypeInv, TypeOK
<1>5. UnpublishedUnused'
  BY <1>1, <1>2, <1>3 DEF UnpublishedUnused, TypeInv, TypeOK
<1> QED BY <1>2, <1>3, <1>4, <1>5 DEF ListedCopies, WalletCopies, SendingKnown, PendingUnused, ToldOnce,
                                      SuccessKnown, FreedUnused

\* A callback is called.
LEMMA CallbackCopies ==
    ASSUME TypeInv, TypeInv', CopyInv, NEW r \in ringing, TxCallback(r)
    PROVE  CopyInv'
<1>1. /\ ringing' = ringing \ {r}
      /\ told' = [told EXCEPT ![r.call] = Append(@, r.error)]
      /\ held' = NoCall
      /\ UNCHANGED <<published, wallet, copy, using, call, freed, peer>>
  BY DEF TxCallback, mgrVars, walletVars, CopyInv, OwnCopies
<1>2. r.call \in Calls /\ r.error \in Errors /\ told[r.call] = <<>>
  BY DEF TypeInv, TypeOK, CopyInv, ToldOnce
<1>3. told'[r.call] = <<r.error>> /\ \A d \in Calls : d # r.call => told'[d] = told[d]
  BY <1>1, <1>2 DEF TypeInv, TypeOK
<1>4. Listed' = Listed /\ (\A t : InAllTx(t)' <=> InAllTx(t)) /\ (\A d : InUse(d)' <=> InUse(d))
  BY <1>1 DEF Listed, InAllTx, InUse
<1>5. \A d \in Calls : Succeeds(d)' => Succeeds(d)
  <2>1. <<r.error>> = <<"OK">> => r.error = "OK"
    OBVIOUS
  <2> QED BY <1>1, <1>3, <2>1 DEF Succeeds
<1> USE DEF CopyInv
<1>6. OwnCopies' /\ WalletCopies' /\ SendingKnown'
  BY <1>1, <1>4 DEF OwnCopies, WalletCopies, SendingKnown
<1>7. ListedCopies'
  BY <1>1, <1>4 DEF ListedCopies
<1>8. PendingUnused'
  <2>1. \A t \in Listed : published[t].callback # NoCall => published[t].callback \in Calls /\ published[t].callback # r.call
    BY DEF PendingUnused, TypeInv, TypeOK, Entries
  <2> QED BY <1>1, <1>3, <1>4, <2>1 DEF PendingUnused
<1>9. UnpublishedUnused'
  BY <1>1, <1>2, <1>3, <1>4 DEF UnpublishedUnused
<1>10. ToldOnce'
  <2>1. \A s \in ringing' : s.call \in Calls /\ s.call # r.call
    BY <1>1 DEF ToldOnce, TypeInv, TypeOK
  <2> QED BY <1>1, <1>2, <1>3, <2>1 DEF ToldOnce
<1>11. SuccessKnown' /\ FreedUnused'
  BY <1>1, <1>4, <1>5 DEF SuccessKnown, FreedUnused
<1> QED BY <1>6, <1>7, <1>8, <1>9, <1>10, <1>11

\* CopyInv is kept by the manager ...
LEMMA ManagerCopies ==
    ASSUME TypeInv, TypeInv', CopyInv, ManagerStep
    PROVE  CopyInv'
<1>1. CASE Quiet
  BY <1>1, UntouchedCopies DEF Quiet
<1>2. CASE \E t \in Tx : Accept(t) \/ Refuse(t) \/ Confirm(t)
  BY <1>2, AcceptCopies, RefuseCopies, ConfirmCopies
<1>3. CASE \E S \in SUBSET Tx, e \in Errors : Cancel(S, e)
  BY <1>3, CancelCopies
<1>4. CASE \E p \in Peers : Transmit(p)
  BY <1>4, UntouchedCopies DEF Transmit, KnownSame
<1> QED BY <1>1, <1>2, <1>3, <1>4 DEF ManagerStep

\* ... and by the publishers.
LEMMA CopiesStep ==
    ASSUME ~KeepsTransaction, TypeInv, CalledHasCopy, CopyInv, [Next]_vars
    PROVE  CopyInv'
<1>1. TypeInv'
  BY StepType
<1>2. CASE \E c, k \in Calls : PublishTx(c, k)
  <2>1. PICK c \in Calls, k \in Calls : PublishTx(c, k)
    BY <1>2
  <2>2. k = c /\ call[c] = "idle" /\ held' = NoCall /\ using' = [using EXCEPT ![c] = c]
    BY <2>1, TappedOwn DEF PublishTx
  <2>3. DoPublish(c, c)
    BY <2>1, <2>2 DEF PublishTx
  <2>4. \A p \in Peers : peer'[p].sending = peer[p].sending
    BY <2>2, <2>3, PublishType DEF TypeInv, TypeOK
  <2> QED BY <1>1, <2>2, <2>3, <2>4, PublishCopies
<1>3. CASE \E c \in Calls : PublishTxChecked(c)
  <2>1. PICK c \in Calls : PublishTxChecked(c)
    BY <1>3
  <2>2. call[c] = "checked" /\ using[c] = c /\ held' = held /\ using' = using /\ held = NoCall
    BY <2>1 DEF PublishTxChecked, CopyInv, OwnCopies
  <2>3. DoPublish(c, c)
    BY <2>1, <2>2 DEF PublishTxChecked
  <2>4. using' = [using EXCEPT ![c] = c] /\ using' \in [Calls -> Calls \cup {NoCall}] /\ held' = NoCall
    BY <2>2 DEF TypeInv, TypeOK
  <2>5. \A p \in Peers : peer'[p].sending = peer[p].sending
    BY <2>3, <2>4, PublishType
  <2> QED BY <1>1, <2>2, <2>3, <2>4, <2>5, PublishCopies
<1>4. CASE \E c, k \in Calls : PublishTxNotConnected(c, k) \/ PublishTxCheck(c, k)
  BY <1>1, <1>4, NotConnectedCopies, CheckCopies
<1>5. CASE \E r \in ringing : TxCallback(r)
  BY <1>1, <1>5, CallbackCopies
<1>6. CASE UNCHANGED vars
  BY <1>6, UntouchedCopies DEF vars, KnownSame, SendingShrinks, mgrVars, walletVars
<1>7. CASE ManagerStep
  BY <1>1, <1>7, ManagerCopies
<1> QED BY <1>2, <1>3, <1>4, <1>5, <1>6, <1>7, ManagerSteps DEF CallStep

\* What follows from it.
LEMMA CopyInvMeans ==
    ASSUME TypeInv, CopyInv
    PROVE  FreedNotUsed /\ ToldOkIsKnown
<1>1. ASSUME NEW d \in Calls, told[d] # <<>>
      PROVE  call[d] = "published" /\ using[d] = d /\ \E e \in Errors : told[d] = <<e>>
  BY <1>1 DEF CopyInv, UnpublishedUnused, OwnCopies, ToldOnce
<1>2. ASSUME NEW d \in Calls, told[d] # <<>>, told[d][1] = "OK"
      PROVE  using[d] = d /\ Succeeds(d)
  BY <1>1, <1>2 DEF Succeeds
<1>3. FreedNotUsed
  BY <1>2 DEF FreedNotUsed, CopyInv, FreedUnused, InUse
<1>4. ToldOkIsKnown
  BY <1>2 DEF ToldOkIsKnown, CopyInv, SuccessKnown
<1> QED BY <1>3, <1>4

\* The inductive invariant about copies.
LEMMA CopiesInvariant ==
    ASSUME ~KeepsTransaction
    PROVE  Spec => [](TypeInv /\ CalledHasCopy /\ CopyInv)
<1>1. Init => TypeInv /\ CalledHasCopy /\ CopyInv
  BY InitType, InitCopies DEF Init, CalledHasCopy
<1>2. TypeInv /\ CalledHasCopy /\ CopyInv /\ [Next]_vars => (TypeInv /\ CalledHasCopy /\ CopyInv)'
  BY StepType, CopiesStep
<1> QED BY <1>1, <1>2, PTL DEF Spec

(***************************************************************************)
(* BRTransactionFree is never called for a copy that the publish list, the *)
(* wallet or a peer's thread still has, or whose publisher was or will be  *)
(* told of success, as long as no send screen publishes a transaction a    *)
(* second time (with KeepsTransaction it may, and TLC shows what happens). *)
(***************************************************************************)
THEOREM FreedIsNotUsed ==
    ASSUME ~KeepsTransaction
    PROVE  Spec => []FreedNotUsed
<1>1. TypeInv /\ CalledHasCopy /\ CopyInv => FreedNotUsed
  BY CopyInvMeans
<1> QED BY <1>1, CopiesInvariant, PTL

\* A publisher that was told of success finds its transaction in the wallet: BRPeerManager registers
\* it before it takes the callback out of the list.
THEOREM ToldOfSuccessIsKnown ==
    ASSUME ~KeepsTransaction
    PROVE  Spec => []ToldOkIsKnown
<1>1. TypeInv /\ CalledHasCopy /\ CopyInv => ToldOkIsKnown
  BY CopyInvMeans
<1> QED BY <1>1, CopiesInvariant, PTL

-----------------------------------------------------------------------------
(* Answers. *)

\* What was sent, and what other nodes have of what is not foreign, the wallet knows.
SentKnown ==
    /\ \A c \in sent \cap Calls : InAllTx(TxOf[c])
    /\ \A t \in network : t \in Foreign \/ InAllTx(t)

\* The wallet knows a transaction only because a publisher succeeds, or because it is foreign.
KnownAnswered ==
    \A t \in Tx : InAllTx(t) => t \in Foreign \/ \E c \in Calls : TxOf[c] = t /\ Succeeds(c)

\* When the user waits, two calls are never both unanswered.
OneUnanswered ==
    OneAtATime => \A c, d \in Calls :
        c # d /\ call[c] # "idle" /\ call[d] # "idle" => told[c] # <<>> \/ told[d] # <<>>

AnswerInv == SentKnown /\ KnownAnswered /\ OneUnanswered

\* The initial state.
LEMMA InitAnswers == Init => AnswerInv
  BY DEF Init, AnswerInv, SentKnown, KnownAnswered, OneUnanswered, InAllTx

\* No step undoes what has been achieved.
Progress ==
    /\ \A t \in Tx : InAllTx(t) => InAllTx(t)'
    /\ \A c \in Calls : Succeeds(c) => Succeeds(c)'
    /\ \A t \in Tx : InAllTx(t)' /\ ~InAllTx(t) =>
          t \in network \/ \E c \in Calls : TxOf[c] = t /\ Succeeds(c)'
    /\ \A c \in sent' \cap Calls : c \in sent \/ InAllTx(TxOf[c])
    /\ \A t \in network' : t \in network \/ InAllTx(t)

\* What follows from Progress.
LEMMA ProgressAnswers ==
    ASSUME TypeInv, TypeInv', SentKnown, KnownAnswered, Progress
    PROVE  SentKnown' /\ KnownAnswered'
<1>1. sent \cap Calls \subseteq Calls /\ network' \subseteq Tx /\ network \subseteq Tx
  BY DEF TypeInv, TypeOK
<1>2. SentKnown'
  BY <1>1 DEF SentKnown, Progress
<1>3. KnownAnswered'
  <2> SUFFICES ASSUME NEW t \in Tx, InAllTx(t)', t \notin Foreign
               PROVE  \E c \in Calls : TxOf[c] = t /\ Succeeds(c)'
    BY DEF KnownAnswered
  <2>1. CASE InAllTx(t) \/ t \in network
    <3>1. InAllTx(t)
      BY <2>1 DEF SentKnown
    <3> QED BY <3>1 DEF KnownAnswered, Progress
  <2>2. CASE ~InAllTx(t) /\ t \notin network
    BY <2>2 DEF Progress
  <2> QED BY <2>1, <2>2
<1> QED BY <1>2, <1>3

\* The manager makes progress ...
LEMMA ManagerProgress ==
    ASSUME TypeInv, TypeInv', CopyInv, ManagerStep
    PROVE  Progress /\ UNCHANGED <<call, told>>
<1>1. CASE Quiet
  <2>1. UNCHANGED <<call, told, ringing, sent, network>> /\ KnownSame
    BY <1>1 DEF Quiet, callVars, netVars
  <2> QED BY <2>1 DEF Progress, KnownSame, InAllTx, Succeeds
<1>2. ASSUME NEW t \in Tx, Accept(t) PROVE Progress /\ UNCHANGED <<call, told>>
  <2>1. /\ \A u \in Tx : InAllTx(u)' <=> InAllTx(u) \/ u = t
        /\ ringing' = ringing \cup Taken(t, "OK")
        /\ UNCHANGED <<call, told, sent, network>>
        /\ InAllTx(t) \/ t \in Listed \/ t \in network
    BY <1>2 DEF Accept, InAllTx, netVars
  <2>2. \A c \in Calls : Succeeds(c) => Succeeds(c)'
    BY <2>1 DEF Succeeds
  <2>3. ASSUME ~InAllTx(t), t \notin network
        PROVE  \E c \in Calls : TxOf[c] = t /\ Succeeds(c)'
    <3>1. t \in Listed
      BY <2>1, <2>3
    <3>2. published[t].callback # NoCall
      BY <2>3, <3>1 DEF CopyInv, ListedCopies
    <3>3. [call |-> published[t].callback, error |-> "OK"] \in Taken(t, "OK")
      BY <3>1, <3>2 DEF Taken, Pending, Listed
    <3>4. PICK r \in Taken(t, "OK") : TRUE
      BY <3>3
    <3>5. r.call \in Calls /\ TxOf[r.call] = t /\ r.error = "OK" /\ r \in ringing'
      BY <2>1, <3>4, TakenIs
    <3>6. PICK c \in Calls : c = r.call
      BY <3>5
    <3>7. Succeeds(c)'
      BY <3>5, <3>6 DEF Succeeds
    <3> QED BY <3>5, <3>6, <3>7
  <2> QED BY <2>1, <2>2, <2>3 DEF Progress
<1>3. ASSUME NEW t \in Tx, Refuse(t) \/ Confirm(t) PROVE Progress /\ UNCHANGED <<call, told>>
  <2>1. UNCHANGED <<call, told, sent, network>> /\ ringing \subseteq ringing' /\ KnownSame
    BY <1>3 DEF Refuse, Confirm, KnownSame, netVars
  <2> QED BY <2>1 DEF Progress, KnownSame, InAllTx, Succeeds
<1>4. CASE \E S \in SUBSET Tx, e \in Errors : Cancel(S, e)
  <2>1. UNCHANGED <<call, told, sent, network>> /\ ringing \subseteq ringing' /\ KnownSame
    BY <1>4 DEF Cancel, netVars
  <2> QED BY <2>1 DEF Progress, KnownSame, InAllTx, Succeeds
<1>5. ASSUME NEW p \in Peers, Transmit(p) PROVE Progress /\ UNCHANGED <<call, told>>
  <2>1. /\ UNCHANGED <<call, told, ringing, wallet>>
        /\ sent' \subseteq sent \cup {peer[p].sending}
        /\ network' = network \/ (peer[p].sending \in Calls /\ network' = network \cup {TxOf[peer[p].sending]})
    BY <1>5 DEF Transmit, callVars, netVars
  <2>2. peer[p].sending \in Calls => InAllTx(TxOf[peer[p].sending])
    BY DEF CopyInv, SendingKnown
  <2>3. (\A t \in Tx : InAllTx(t)' <=> InAllTx(t)) /\ \A c : Succeeds(c)' <=> Succeeds(c)
    BY <2>1 DEF InAllTx, Succeeds
  <2> QED BY <2>1, <2>2, <2>3 DEF Progress
<1> QED BY <1>1, <1>2, <1>3, <1>4, <1>5 DEF ManagerStep

\* ... and so do the publishers.
LEMMA CallProgress ==
    ASSUME ~KeepsTransaction, TypeInv, CopyInv, CallStep
    PROVE  /\ Progress
           /\ \A c \in Calls : told[c] # <<>> => told'[c] # <<>>
           /\ \A c \in Calls : call'[c] # "idle" =>
                 \/ call[c] # "idle"
                 \/ OneAtATime => \A d \in Calls : call[d] = "idle" \/ told[d] # <<>>
           /\ \E c \in Calls : \A d \in Calls : d # c => call'[d] = call[d]
           /\ sent' = sent
<1>1. CASE \E c, k \in Calls : PublishTx(c, k) \/ PublishTxNotConnected(c, k) \/ PublishTxCheck(c, k)
  <2>1. PICK c \in Calls, k \in Calls :
          PublishTx(c, k) \/ PublishTxNotConnected(c, k) \/ PublishTxCheck(c, k)
    BY <1>1
  <2>2. SendTapped(c, k)
    BY <2>1 DEF PublishTx, PublishTxNotConnected, PublishTxCheck
  <2>3. call[c] = "idle" /\ (OneAtATime => \A d \in Calls : call[d] = "idle" \/ told[d] # <<>>)
    BY <2>2 DEF SendTapped
  <2>4. /\ \E st \in {"checked", "published"} : call' = [call EXCEPT ![c] = st]
        /\ told' = told \/ told' = [told EXCEPT ![c] = Append(@, "ENOTCONN")]
        /\ UNCHANGED <<wallet, ringing, sent, network>>
    BY <2>1 DEF PublishTx, DoPublish, PublishTxNotConnected, PublishTxCheck, walletVars, netVars
  <2>5. told[c] = <<>> /\ \A r \in ringing : r.call # c
    BY <2>3 DEF CopyInv, UnpublishedUnused
  <2>6. \A d \in Calls : d # c => told'[d] = told[d]
    BY <2>4 DEF TypeInv, TypeOK
  <2>7. \A d \in Calls : Succeeds(d) => Succeeds(d)'
    BY <2>4, <2>5, <2>6 DEF Succeeds
  <2>8. Progress
    BY <2>4, <2>7 DEF Progress, InAllTx
  <2>9. \A d \in Calls : told[d] # <<>> => told'[d] # <<>>
    BY <2>5, <2>6
  <2>10. \A d \in Calls : d # c => call'[d] = call[d]
    BY <2>4 DEF TypeInv, TypeOK
  <2> QED BY <2>3, <2>4, <2>8, <2>9, <2>10
<1>2. CASE \E c \in Calls : PublishTxChecked(c)
  <2>1. PICK c \in Calls : PublishTxChecked(c)
    BY <1>2
  <2>2. /\ call[c] = "checked" /\ call' = [call EXCEPT ![c] = "published"]
        /\ UNCHANGED <<told, wallet, ringing, sent, network>>
    BY <2>1 DEF PublishTxChecked, DoPublish, walletVars, netVars
  <2>3. Progress
    BY <2>2 DEF Progress, InAllTx, Succeeds
  <2>4. \A d \in Calls : d # c => call'[d] = call[d]
    BY <2>2 DEF TypeInv, TypeOK
  <2> QED BY <2>2, <2>3, <2>4
<1>3. CASE \E r \in ringing : TxCallback(r)
  <2>1. PICK r \in ringing : TxCallback(r)
    BY <1>3
  <2>2. /\ ringing' = ringing \ {r} /\ told' = [told EXCEPT ![r.call] = Append(@, r.error)]
        /\ UNCHANGED <<call, wallet, sent, network>>
    BY <2>1 DEF TxCallback, walletVars, netVars
  <2>3. r.call \in Calls /\ r.error \in Errors /\ told[r.call] = <<>>
    BY DEF TypeInv, TypeOK, CopyInv, ToldOnce
  <2>4. told'[r.call] = <<r.error>> /\ \A d \in Calls : d # r.call => told'[d] = told[d]
    BY <2>2, <2>3 DEF TypeInv, TypeOK
  <2>5. \A d \in Calls : Succeeds(d) => Succeeds(d)'
    <3> SUFFICES ASSUME NEW d \in Calls, Succeeds(d) PROVE Succeeds(d)'
      OBVIOUS
    <3>1. CASE d # r.call
      BY <2>2, <2>4, <3>1 DEF Succeeds
    <3>2. CASE d = r.call
      <4>1. r.error = "OK"
        <5>1. told[d] # <<"OK">>
          BY <2>3, <3>2
        <5>2. PICK s \in ringing : s.call = d /\ s.error = "OK"
          BY <5>1 DEF Succeeds
        <5> QED BY <3>2, <5>2 DEF CopyInv, ToldOnce
      <4> QED BY <2>4, <3>2, <4>1 DEF Succeeds
    <3> QED BY <3>1, <3>2
  <2>6. Progress
    BY <2>2, <2>5 DEF Progress, InAllTx
  <2>7. \A d \in Calls : told[d] # <<>> => told'[d] # <<>>
    BY <2>3, <2>4
  <2> QED BY <2>2, <2>3, <2>6, <2>7
<1> QED BY <1>1, <1>2, <1>3 DEF CallStep

\* AnswerInv is kept by every step.
LEMMA AnswersStep ==
    ASSUME ~KeepsTransaction, TypeInv, CalledHasCopy, CopyInv, AnswerInv, [Next]_vars
    PROVE  AnswerInv'
<1>1. TypeInv'
  BY StepType
<1>2. CASE UNCHANGED vars
  BY <1>2 DEF AnswerInv, SentKnown, KnownAnswered, OneUnanswered, Succeeds, InAllTx, vars, walletVars,
              callVars, netVars
<1>3. CASE ManagerStep
  <2>1. Progress /\ UNCHANGED <<call, told>>
    BY <1>1, <1>3, ManagerProgress
  <2> QED BY <1>1, <2>1, ProgressAnswers DEF AnswerInv, OneUnanswered
<1>4. CASE CallStep
  <2>1. /\ Progress
        /\ \A c \in Calls : told[c] # <<>> => told'[c] # <<>>
        /\ \A c \in Calls : call'[c] # "idle" =>
              \/ call[c] # "idle"
              \/ OneAtATime => \A d \in Calls : call[d] = "idle" \/ told[d] # <<>>
        /\ \E c \in Calls : \A d \in Calls : d # c => call'[d] = call[d]
    BY <1>4, CallProgress
  <2>2. OneUnanswered'
    BY <2>1 DEF AnswerInv, OneUnanswered
  <2> QED BY <1>1, <2>1, <2>2, ProgressAnswers DEF AnswerInv
<1> QED BY <1>2, <1>3, <1>4, ManagerSteps

-----------------------------------------------------------------------------
(* Publishers that nobody will call back. *)

\* No other device publishes the transactions that this one publishes.
OwnTransactions == \A c \in Calls : TxOf[c] \notin Foreign

\* The manager does not lose a callback, but that of a transaction which a block confirms.
LEMMA ManagerSilent ==
    ASSUME OwnTransactions, TypeInv, TypeInv', CopyInv, AnswerInv, SilentIsKnown, ManagerStep
    PROVE  SilentIsKnown'
<1> SUFFICES ASSUME NEW c \in Calls, Silent(c)' PROVE InAllTx(TxOf[c])'
  BY DEF SilentIsKnown
<1>1. Progress /\ UNCHANGED <<call, told>>
  BY ManagerProgress
<1>2. ringing \subseteq ringing'
  BY DEF ManagerStep, Quiet, Accept, Refuse, Confirm, Cancel, Transmit, callVars
<1>3. /\ call[c] = "published" /\ told[c] = <<>>
      /\ \A r \in ringing' : r.call # c
      /\ \A t \in Listed' : published'[t].callback # c
  BY <1>1 DEF Silent
<1> SUFFICES InAllTx(TxOf[c])
  BY <1>1 DEF Progress
<1>4. CASE Silent(c)
  BY <1>4 DEF SilentIsKnown
<1>5. ASSUME NEW t \in Listed, published[t].callback = c
      PROVE  InAllTx(TxOf[c])
  <2>1. t \in Tx /\ TxOf[c] = t /\ t \in Pending(published)
    BY <1>5 DEF CopyInv, ListedCopies, TypeInv, TypeOK, Pending, Listed
  <2>2. \A e : Taken(t, e) = {[call |-> c, error |-> e]}
    BY <1>5, <2>1 DEF Taken
  <2>3. ASSUME NEW e PROVE ~(Taken(t, e) \subseteq ringing')
    <3>1. [call |-> c, error |-> e] \in Taken(t, e) /\ [call |-> c, error |-> e].call = c
      BY <2>2
    <3> QED BY <1>3, <3>1
  <2>4. CASE Quiet
    BY <1>3, <1>5, <2>4 DEF Quiet, Listed
  <2>5. ASSUME NEW u \in Tx, Accept(u) PROVE InAllTx(TxOf[c])
    <3>1. u # t
      BY <2>3, <2>5 DEF Accept
    <3> QED BY <1>3, <1>5, <2>5, <3>1 DEF Accept
  <2>6. ASSUME NEW u \in Tx, Refuse(u) \/ Confirm(u) PROVE InAllTx(TxOf[c])
    <3>1. CASE u # t
      BY <1>3, <1>5, <2>6, <3>1 DEF Refuse, Confirm, Without, Listed
    <3>2. CASE u = t /\ Refuse(u)
      BY <2>3, <3>2 DEF Refuse
    <3>3. CASE u = t /\ Confirm(u)
      BY <2>1, <3>3 DEF Confirm, AnswerInv, SentKnown, OwnTransactions
    <3> QED BY <2>6, <3>1, <3>2, <3>3
  <2>7. ASSUME NEW S \in SUBSET Tx, NEW e \in Errors, Cancel(S, e) PROVE InAllTx(TxOf[c])
    <3>1. t \notin S
      <4>1. t \in S => [call |-> c, error |-> e] \in Cancelled(S, e)
        BY <1>5 DEF Cancelled
      <4> QED BY <1>3, <2>7, <4>1 DEF Cancel
    <3> QED BY <1>3, <1>5, <2>7, <3>1 DEF Cancel, Without, Listed
  <2>8. ASSUME NEW p \in Peers, Transmit(p) PROVE InAllTx(TxOf[c])
    BY <1>3, <1>5, <2>8 DEF Transmit, Listed
  <2> QED BY <2>4, <2>5, <2>6, <2>7, <2>8 DEF ManagerStep
<1>6. Silent(c) \/ \E t \in Listed : published[t].callback = c
  BY <1>2, <1>3 DEF Silent
<1> QED BY <1>4, <1>5, <1>6

\* A call whose transaction is listed already finds it in the wallet: the other call has been answered.
LEMMA PublishSilent ==
    ASSUME OneAtATime, TypeInv, CopyInv, AnswerInv', SilentIsKnown,
           NEW c \in Calls, call[c] # "published", DoPublish(c, c)
    PROVE  SilentIsKnown'
<1>1. /\ published' = AddTxToPublishList(TxOf[c], c, c)
      /\ call' = [call EXCEPT ![c] = "published"]
      /\ UNCHANGED <<wallet, ringing, told>>
  BY DEF DoPublish, walletVars
<1>2. /\ Listed \subseteq Listed' /\ TxOf[c] \in Listed'
      /\ \A u \in Listed : published'[u] = published[u]
      /\ TxOf[c] \in Listed' \ Listed => published'[TxOf[c]].callback = c \/ InAllTx(TxOf[c])
  BY <1>1, ListedByCall
<1>3. call'[c] = "published" /\ \A d \in Calls : d # c => call'[d] = call[d]
  BY <1>1 DEF TypeInv, TypeOK
<1>4. \A t : InAllTx(t)' <=> InAllTx(t)
  BY <1>1 DEF InAllTx
<1> SUFFICES ASSUME NEW d \in Calls, Silent(d)' PROVE InAllTx(TxOf[d])
  BY <1>4 DEF SilentIsKnown
<1>5. CASE d # c
  <2>1. Silent(d)
    BY <1>1, <1>2, <1>3, <1>5 DEF Silent
  <2> QED BY <2>1 DEF SilentIsKnown
<1>6. CASE d = c /\ TxOf[c] \notin Listed
  BY <1>2, <1>6 DEF Silent
<1>7. CASE d = c /\ TxOf[c] \in Listed
  <2> DEFINE e == published[TxOf[c]].callback
  <2>1. e # c /\ told[c] = <<>>
    BY <1>1, <1>2, <1>7 DEF Silent
  <2>2. ASSUME e # NoCall PROVE FALSE
    <3>1. e \in Calls /\ published[TxOf[c]].copy = e /\ told[e] = <<>>
      BY <1>7, <2>2 DEF TypeInv, TypeOK, Entries, CopyInv, ListedCopies, PendingUnused
    <3>2. call[e] = "published"
      BY <1>7, <3>1 DEF CopyInv, UnpublishedUnused, InUse
    <3> HIDE DEF e
    <3> QED BY <1>1, <1>3, <2>1, <3>1, <3>2 DEF AnswerInv, OneUnanswered
  <2> QED BY <1>7, <2>2 DEF CopyInv, ListedCopies
<1> QED BY <1>5, <1>6, <1>7

\* No step makes a publisher wait in vain.
LEMMA SilentStep ==
    ASSUME ~KeepsTransaction, OneAtATime, OwnTransactions, TypeInv, CalledHasCopy, CopyInv, AnswerInv,
           SilentIsKnown, [Next]_vars
    PROVE  SilentIsKnown'
<1>1. TypeInv' /\ AnswerInv'
  BY StepType, AnswersStep
<1>2. CASE \E c, k \in Calls : PublishTx(c, k)
  <2>1. PICK c \in Calls, k \in Calls : PublishTx(c, k)
    BY <1>2
  <2>2. k = c /\ call[c] = "idle"
    BY <2>1, TappedOwn DEF PublishTx
  <2> QED BY <1>1, <2>1, <2>2, PublishSilent DEF PublishTx
<1>3. CASE \E c \in Calls : PublishTxChecked(c)
  <2>1. PICK c \in Calls : PublishTxChecked(c)
    BY <1>3
  <2>2. call[c] = "checked" /\ using[c] = c
    BY <2>1 DEF PublishTxChecked, CopyInv, OwnCopies
  <2> QED BY <1>1, <2>1, <2>2, PublishSilent DEF PublishTxChecked
<1>4. CASE \E c, k \in Calls : PublishTxNotConnected(c, k) \/ PublishTxCheck(c, k)
  <2>1. PICK c \in Calls, k \in Calls : PublishTxNotConnected(c, k) \/ PublishTxCheck(c, k)
    BY <1>4
  <2>2. UNCHANGED <<published, wallet, ringing>>
    BY <2>1 DEF PublishTxNotConnected, PublishTxCheck, mgrVars, walletVars
  <2>3. \/ call' = [call EXCEPT ![c] = "published"] /\ told' = [told EXCEPT ![c] = Append(@, "ENOTCONN")]
        \/ call' = [call EXCEPT ![c] = "checked"] /\ told' = told
    BY <2>1 DEF PublishTxNotConnected, PublishTxCheck
  <2>4. told[c] \in Seq(Errors) /\ "ENOTCONN" \in Errors
    BY DEF TypeInv, TypeOK, Errors
  <2>5. Append(told[c], "ENOTCONN") # <<>>
    BY <2>4
  <2>6. ~Silent(c)'
    BY <2>3, <2>5 DEF Silent, TypeInv, TypeOK
  <2>7. \A d \in Calls : d # c => call'[d] = call[d] /\ told'[d] = told[d]
    BY <2>3 DEF TypeInv, TypeOK
  <2>8. \A d \in Calls : Silent(d)' => Silent(d)
    BY <2>2, <2>6, <2>7 DEF Silent, Listed
  <2> QED BY <2>2, <2>8 DEF SilentIsKnown, InAllTx
<1>5. CASE \E r \in ringing : TxCallback(r)
  <2>1. PICK r \in ringing : TxCallback(r)
    BY <1>5
  <2>2. /\ ringing' = ringing \ {r} /\ told' = [told EXCEPT ![r.call] = Append(@, r.error)]
        /\ UNCHANGED <<published, call, wallet>>
    BY <2>1 DEF TxCallback, mgrVars, walletVars
  <2>3. r.call \in Calls /\ r.error \in Errors /\ told[r.call] \in Seq(Errors)
    BY DEF TypeInv, TypeOK
  <2>4. told'[r.call] # <<>> /\ \A d \in Calls : d # r.call => told'[d] = told[d]
    <3>1. Append(told[r.call], r.error) # <<>>
      BY <2>3
    <3> QED BY <2>2, <2>3, <3>1 DEF TypeInv, TypeOK
  <2>5. \A d \in Calls : Silent(d)' => Silent(d)
    BY <2>2, <2>4 DEF Silent, Listed
  <2> QED BY <2>2, <2>5 DEF SilentIsKnown, InAllTx
<1>6. CASE UNCHANGED vars
  BY <1>6 DEF SilentIsKnown, Silent, Listed, InAllTx, vars, mgrVars, walletVars, callVars
<1>7. CASE ManagerStep
  BY <1>1, <1>7, ManagerSilent
<1> QED BY <1>2, <1>3, <1>4, <1>5, <1>6, <1>7, ManagerSteps DEF CallStep

\* The inductive invariant about answers.
LEMMA AnswersInvariant ==
    ASSUME ~KeepsTransaction
    PROVE  Spec => [](TypeInv /\ CalledHasCopy /\ CopyInv /\ AnswerInv)
<1>1. Init => TypeInv /\ CalledHasCopy /\ CopyInv /\ AnswerInv
  BY InitType, InitCopies, InitAnswers DEF Init, CalledHasCopy
<1>2. TypeInv /\ CalledHasCopy /\ CopyInv /\ AnswerInv /\ [Next]_vars
        => (TypeInv /\ CalledHasCopy /\ CopyInv /\ AnswerInv)'
  BY StepType, CopiesStep, AnswersStep
<1> QED BY <1>1, <1>2, PTL DEF Spec

(***************************************************************************)
(* A publisher that is never called back finds its transaction in the      *)
(* wallet.  It takes all three assumptions: a transaction that is          *)
(* published twice at a time loses the second callback whatever becomes of *)
(* it, and a block may hold what another device has published, which the   *)
(* wallet does not know.                                                   *)
(***************************************************************************)
THEOREM SilentPublisherFindsTx ==
    ASSUME ~KeepsTransaction, OneAtATime, OwnTransactions
    PROVE  Spec => []SilentIsKnown
<1>1. Init => SilentIsKnown
  BY DEF Init, SilentIsKnown, Silent
<1>2. TypeInv /\ CalledHasCopy /\ CopyInv /\ AnswerInv /\ SilentIsKnown /\ [Next]_vars => SilentIsKnown'
  BY SilentStep
<1> QED BY <1>1, <1>2, AnswersInvariant, PTL DEF Spec

-----------------------------------------------------------------------------
(* BRPeerManagerPublishTx implements Publication. *)

Outcomes == [c \in Calls |-> Outcome(c)]

SentTx == {TxOf[c] : c \in sent \cap Calls}

\* What Outcome says, given that a publisher is told once.
LEMMA OutcomeIs ==
    ASSUME TypeInv, CopyInv, NEW c \in Calls
    PROVE  /\ Outcome(c) = "idle" <=> call[c] = "idle"
           /\ Outcome(c) = "pending" <=> call[c] # "idle" /\ told[c] = <<>>
           /\ Outcome(c) = "ok" <=> told[c] = <<"OK">>
           /\ Outcome(c) = "failed" <=> \E e \in Errors \ {"OK"} : told[c] = <<e>>
           /\ Outcome(c) \in {"idle", "pending", "ok", "failed"}
<1>1. call[c] = "idle" => told[c] = <<>>
  BY DEF CopyInv, UnpublishedUnused
<1>2. CASE told[c] = <<>>
  BY <1>1, <1>2 DEF Outcome
<1>3. ASSUME NEW e \in Errors, told[c] = <<e>>
      PROVE  Outcome(c) = IF e = "OK" THEN "ok" ELSE "failed"
  <2>1. Len(told[c]) = 1 /\ told[c][1] = e /\ told[c] # <<>>
    BY <1>3
  <2> QED BY <1>1, <2>1 DEF Outcome
<1>4. \A e, f \in Errors : <<e>> = <<f>> => e = f
  OBVIOUS
<1>5. CASE \E e \in Errors : told[c] = <<e>>
  <2>1. PICK e \in Errors : told[c] = <<e>>
    BY <1>5
  <2>2. Outcome(c) = IF e = "OK" THEN "ok" ELSE "failed"
    BY <1>3, <2>1
  <2>3. call[c] # "idle" /\ told[c] # <<>> /\ "OK" \in Errors
    BY <1>1, <2>1 DEF Errors
  <2> QED BY <1>4, <2>1, <2>2, <2>3
<1>6. told[c] = <<>> \/ \E e \in Errors : told[c] = <<e>>
  BY DEF CopyInv, ToldOnce
<1> QED BY <1>2, <1>5, <1>6

\* The same after a step.
OutcomesMean ==
    \A c \in Calls : /\ Outcome(c) = "pending" <=> call[c] # "idle" /\ told[c] = <<>>
                     /\ Outcome(c) = "ok" <=> told[c] = <<"OK">>
                     /\ Outcome(c) = "failed" <=> \E e \in Errors \ {"OK"} : told[c] = <<e>>

LEMMA NextOutcomes == TypeInv' /\ CopyInv' => OutcomesMean'
<1>1. TypeInv /\ CopyInv => OutcomesMean
  BY OutcomeIs DEF OutcomesMean
<1> QED BY <1>1, PTL

\* The initial states.
LEMMA InitPublication == Init => Abstract!Init
  BY DEF Init, Abstract!Init, Outcome

\* A thread transmits what a call has published, or is about to be told that it has.
LEMMA TransmitRefines ==
    ASSUME OwnTransactions, TypeInv, TypeInv', CopyInv, AnswerInv, NEW p \in Peers, Transmit(p)
    PROVE  [Abstract!Next]_(Abstract!vars)
<1> DEFINE c == peer[p].sending
<1>1. Outcomes' = Outcomes
  BY DEF Transmit, callVars, Outcomes, Outcome
<1>2. CASE SentTx' = SentTx
  BY <1>1, <1>2 DEF Abstract!vars, Outcomes, SentTx
<1>3. CASE SentTx' # SentTx
  <2>1. c \in Calls /\ sent' = sent \cup {c}
    BY <1>3 DEF Transmit, SentTx, netVars
  <2>2. SentTx' = SentTx \cup {TxOf[c]}
    BY <2>1 DEF SentTx
  <2>3. InAllTx(TxOf[c])
    BY <2>1 DEF CopyInv, SendingKnown
  <2>4. PICK d \in Calls : TxOf[d] = TxOf[c] /\ Succeeds(d)
    BY <2>1, <2>3 DEF AnswerInv, KnownAnswered, OwnTransactions
  <2>5. call[d] # "idle" /\ (told[d] = <<>> \/ told[d] = <<"OK">>)
    BY <2>4 DEF Succeeds, CopyInv, UnpublishedUnused, ToldOnce
  <2>6. Outcome(d) \in {"pending", "ok"}
    BY <2>5, OutcomeIs
  <2>7. Abstract!Transmit(d)
    BY <1>1, <2>2, <2>4, <2>6 DEF Abstract!Transmit, Outcomes, SentTx
  <2> QED BY <2>7 DEF Abstract!Next
<1> QED BY <1>2, <1>3

\* Nothing else that the manager does is visible to a caller.
LEMMA ManagerRefines ==
    ASSUME OwnTransactions, TypeInv, TypeInv', CopyInv, AnswerInv, ManagerStep
    PROVE  [Abstract!Next]_(Abstract!vars)
<1>1. CASE \E p \in Peers : Transmit(p)
  BY <1>1, TransmitRefines
<1>2. CASE ~\E p \in Peers : Transmit(p)
  <2>1. UNCHANGED <<call, told, sent>>
    BY <1>2 DEF ManagerStep, Quiet, Accept, Refuse, Confirm, Cancel, callVars, netVars
  <2> QED BY <2>1 DEF Abstract!vars, Outcome
<1> QED BY <1>1, <1>2

\* A call is made: its publisher waits, or was told that there is no connection.
LEMMA SubmitRefines ==
    ASSUME TypeInv, TypeInv', CopyInv, CopyInv', NEW c \in Calls, NEW k \in Calls,
           PublishTx(c, k) \/ PublishTxNotConnected(c, k) \/ PublishTxCheck(c, k)
    PROVE  [Abstract!Next]_(Abstract!vars)
<1>1. call[c] = "idle"
  BY DEF PublishTx, PublishTxNotConnected, PublishTxCheck, SendTapped
<1>2. /\ \E st \in {"checked", "published"} : call' = [call EXCEPT ![c] = st]
      /\ told' = told \/ told' = [told EXCEPT ![c] = Append(@, "ENOTCONN")]
      /\ sent' = sent
  BY DEF PublishTx, DoPublish, PublishTxNotConnected, PublishTxCheck, netVars
<1>3. told[c] = <<>>
  BY <1>1 DEF CopyInv, UnpublishedUnused
<1>4. call'[c] # "idle" /\ (told'[c] = <<>> \/ told'[c] = <<"ENOTCONN">>)
  BY <1>2, <1>3 DEF TypeInv, TypeOK
<1>5. \A d \in Calls : d # c => call'[d] = call[d] /\ told'[d] = told[d]
  BY <1>2 DEF TypeInv, TypeOK
<1>6. Outcome(c) = "idle"
  BY <1>1, OutcomeIs
<1>7. Outcome(c)' \in {"pending", "failed"}
  <2>1. /\ Outcome(c)' = "pending" <=> call'[c] # "idle" /\ told'[c] = <<>>
        /\ Outcome(c)' = "failed" <=> \E e \in Errors \ {"OK"} : told'[c] = <<e>>
    BY NextOutcomes DEF OutcomesMean
  <2> QED BY <1>4, <2>1 DEF Errors
<1>8. \A d \in Calls : d # c => Outcome(d)' = Outcome(d)
  BY <1>5 DEF Outcome
<1>9. Outcomes' = [Outcomes EXCEPT ![c] = Outcome(c)'] /\ Outcomes[c] = "idle"
  BY <1>6, <1>8 DEF Outcomes
<1>10. Abstract!Submit(c)
  BY <1>2, <1>7, <1>9 DEF Abstract!Submit, Outcomes
<1> QED BY <1>10 DEF Abstract!Next

\* A publisher is called back.  If it is told of an error although its transaction was sent, then on
\* behalf of another call, whose publisher has been told of success.
LEMMA CallbackRefines ==
    ASSUME OneAtATime, OwnTransactions, TypeInv, TypeInv', CopyInv, CopyInv', AnswerInv,
           NEW r \in ringing, TxCallback(r)
    PROVE  [Abstract!Next]_(Abstract!vars)
<1>1. /\ told' = [told EXCEPT ![r.call] = Append(@, r.error)]
      /\ UNCHANGED <<call, sent>>
  BY DEF TxCallback, netVars
<1>2. r.call \in Calls /\ r.error \in Errors /\ told[r.call] = <<>>
  BY DEF TypeInv, TypeOK, CopyInv, ToldOnce
<1>3. PICK c \in Calls : c = r.call
  BY <1>2
<1>4. told'[c] = <<r.error>> /\ \A d \in Calls : d # c => told'[d] = told[d]
  BY <1>1, <1>2, <1>3 DEF TypeInv, TypeOK
<1>5. call[c] # "idle" /\ Outcome(c) = "pending"
  <2>1. call[c] # "idle"
    BY <1>3 DEF CopyInv, UnpublishedUnused
  <2> QED BY <1>2, <1>3, <2>1, OutcomeIs
<1>6. \A d \in Calls : d # c => Outcome(d)' = Outcome(d)
  BY <1>1, <1>4 DEF Outcome
<1>7. Outcomes' = [Outcomes EXCEPT ![c] = Outcome(c)'] /\ Outcomes[c] = "pending"
  BY <1>5, <1>6 DEF Outcomes
<1>8. /\ Outcome(c)' = "ok" <=> told'[c] = <<"OK">>
      /\ Outcome(c)' = "failed" <=> \E e \in Errors \ {"OK"} : told'[c] = <<e>>
  BY NextOutcomes DEF OutcomesMean
<1>9. CASE r.error = "OK"
  <2>1. Abstract!Succeed(c)
    BY <1>1, <1>4, <1>7, <1>8, <1>9 DEF Abstract!Succeed, Outcomes
  <2> QED BY <2>1 DEF Abstract!Next
<1>10. CASE r.error # "OK"
  <2>1. TxOf[c] \notin SentTx \/ \E d \in Calls \ {c} : TxOf[d] = TxOf[c] /\ Outcomes[d] = "ok"
    <3> SUFFICES ASSUME TxOf[c] \in SentTx
                 PROVE  \E d \in Calls \ {c} : TxOf[d] = TxOf[c] /\ Outcomes[d] = "ok"
      OBVIOUS
    <3>1. InAllTx(TxOf[c])
      BY DEF SentTx, AnswerInv, SentKnown
    <3>2. PICK d \in Calls : TxOf[d] = TxOf[c] /\ Succeeds(d)
      BY <3>1 DEF AnswerInv, KnownAnswered, OwnTransactions
    <3>3. d # c
      BY <1>2, <1>3, <1>10, <3>2 DEF Succeeds, CopyInv, ToldOnce
    <3>4. call[d] # "idle"
      BY <3>2 DEF Succeeds, CopyInv, UnpublishedUnused
    <3>5. told[d] # <<>>
      BY <1>2, <1>3, <1>5, <3>3, <3>4 DEF AnswerInv, OneUnanswered
    <3>6. told[d] = <<"OK">>
      BY <3>2, <3>5 DEF Succeeds, CopyInv, ToldOnce
    <3>7. Outcomes[d] = "ok"
      BY <3>6, OutcomeIs DEF Outcomes
    <3> QED BY <3>2, <3>3, <3>7
  <2>2. Abstract!Fail(c)
    BY <1>1, <1>2, <1>4, <1>7, <1>8, <1>10, <2>1
       DEF Abstract!Fail, Abstract!Answered, Outcomes, SentTx
  <2> QED BY <2>2 DEF Abstract!Next
<1> QED BY <1>9, <1>10

\* Every step is one of Publication or a stuttering step.
LEMMA PublicationStep ==
    ASSUME ~KeepsTransaction, OneAtATime, OwnTransactions, TypeInv, CalledHasCopy, CopyInv, AnswerInv,
           [Next]_vars
    PROVE  [Abstract!Next]_(Abstract!vars)
<1>1. TypeInv' /\ CopyInv'
  BY StepType, CopiesStep
<1>2. CASE \E c \in Calls : PublishTxChecked(c)
  <2>1. PICK c \in Calls : PublishTxChecked(c)
    BY <1>2
  <2>2. call[c] = "checked" /\ call' = [call EXCEPT ![c] = "published"] /\ UNCHANGED <<told, sent>>
    BY <2>1 DEF PublishTxChecked, DoPublish, netVars
  <2>3. \A d \in Calls : call'[d] = "idle" <=> call[d] = "idle"
    BY <2>2 DEF TypeInv, TypeOK
  <2>4. \A d \in Calls : Outcome(d)' = Outcome(d)
    BY <2>2, <2>3 DEF Outcome
  <2> QED BY <2>2, <2>4 DEF Abstract!vars
<1>3. CASE UNCHANGED vars
  BY <1>3 DEF vars, callVars, netVars, Abstract!vars, Outcome
<1>4. CASE ManagerStep
  BY <1>1, <1>4, ManagerRefines
<1> QED BY <1>1, <1>2, <1>3, <1>4, ManagerSteps, SubmitRefines, CallbackRefines DEF CallStep

(***************************************************************************)
(* BRPeerManagerPublishTx implements Publication: whatever the peers do, a *)
(* callback is called at most once, and one with an error means that the   *)
(* transaction was not sent and will not be sent for this call.            *)
(***************************************************************************)
THEOREM PublishImplements ==
    ASSUME ~KeepsTransaction, OneAtATime, OwnTransactions
    PROVE  Spec => ImplementsPublication
<1>1. Init => Abstract!Init
  BY InitPublication
<1>2. TypeInv /\ CalledHasCopy /\ CopyInv /\ AnswerInv /\ [Next]_vars => [Abstract!Next]_(Abstract!vars)
  BY PublicationStep
<1> QED BY <1>1, <1>2, AnswersInvariant, PTL DEF Spec, ImplementsPublication, Abstract!Spec

\* "assert(tx != NULL && BRTransactionIsSigned(tx))": no call of BRPeerManagerPublishTx is given a
\* copy that has been freed, if none is given a copy twice.
THEOREM PublishesLiveCopies ==
    ASSUME ~KeepsTransaction
    PROVE  Spec => PublishedIsAlive
<1>1. TypeInv /\ CopyInv /\ [Next]_vars
        => [\A c \in Calls : call[c] = "idle" /\ call'[c] # "idle" => using'[c] \notin freed]_vars
  <2> SUFFICES ASSUME TypeInv, CopyInv, Next, NEW c \in Calls, call[c] = "idle", call'[c] # "idle"
               PROVE  using'[c] \notin freed
    OBVIOUS
  <2>1. ~ManagerStep
    BY DEF ManagerStep, Quiet, Accept, Refuse, Confirm, Cancel, Transmit, callVars
  <2>2. ~\E d \in Calls : PublishTxChecked(d)
    BY DEF PublishTxChecked, DoPublish, TypeInv, TypeOK
  <2>3. ~\E r \in ringing : TxCallback(r)
    BY DEF TxCallback
  <2>4. PICK d \in Calls, k \in Calls : PublishTx(d, k) \/ PublishTxNotConnected(d, k) \/ PublishTxCheck(d, k)
    BY <2>1, <2>2, <2>3, ManagerSteps DEF CallStep
  <2>5. k = d /\ using' = [using EXCEPT ![d] = d]
    BY <2>4, TappedOwn DEF PublishTx, PublishTxNotConnected, PublishTxCheck
  <2>6. d = c
    BY <2>4 DEF PublishTx, DoPublish, PublishTxNotConnected, PublishTxCheck, TypeInv, TypeOK
  <2> QED BY <2>5, <2>6 DEF CopyInv, UnpublishedUnused, TypeInv, TypeOK
<1> QED BY <1>1, CopiesInvariant, PTL DEF Spec, PublishedIsAlive
=============================================================================
