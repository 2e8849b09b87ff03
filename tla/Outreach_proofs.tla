---------------------------- MODULE Outreach_proofs ----------------------------
(***************************************************************************)
(* For any contacts, batches, steps, limits and failures, and relays that  *)
(* answer as late as they like: what a campaign may mail, and that it      *)
(* keeps the contract of OutreachContract.                                 *)
(***************************************************************************)
EXTENDS Outreach, FiniteSetTheorems, TLAPS

\* Where a batch is at work on a contact, and where it has passed the limit.
Working == {"limit", "reply", "claim", "record", "smtp", "mark", "bounce", "suppress", "fail",
            "advance"}
Passed  == {"reply", "claim", "record", "smtp", "mark"}

\* TypeOK in parts, and whom a batch at work is at work on.
CampTyped ==
    /\ campaign \in {"draft", "scheduled", "running", "paused", "completed", "cancelled"}
    /\ launch \in {"idle", "build"}

ContactTyped ==
    /\ status \in [Contact -> {"none", "sending"} \cup Open \cup Done]
    /\ step \in [Contact -> StepNo]
    /\ due \in [Contact -> BOOLEAN]
    /\ repliedAt \in [Contact -> BOOLEAN]
    /\ abandoned \in [Contact -> BOOLEAN]

AddressTyped == invalid \in [Contact -> BOOLEAN] /\ suppressed \in [Contact -> BOOLEAN]

MailTyped ==
    /\ message \in [Contact -> [StepNo -> {"none", "sending", "sent", "failed", "bounced"}]]
    /\ recent \in SUBSET (Contact \X StepNo)

OutsideTyped ==
    /\ delivered \in [Contact -> [StepNo -> Nat]]
    /\ late \in [Contact -> Nat]
    /\ answered \in [Contact -> BOOLEAN]
    /\ unsub \in [Contact -> {"no", "suppressed", "done", "not found"}]

PlaceTyped ==
    /\ pc \in [Batch -> BatchPC]
    /\ cur \in [Batch -> Contact \cup {NoContact}]
    /\ \A b \in Batch : pc[b] \in Working => cur[b] \in Contact

CopyTyped ==
    /\ todo \in [Batch -> SUBSET Contact]
    /\ snap \in [Batch -> [Contact -> [step : StepNo, replied : BOOLEAN, invalid : BOOLEAN]]]
    /\ idx \in [Batch -> StepNo]

Typed ==
    /\ CampTyped /\ ContactTyped /\ AddressTyped /\ MailTyped /\ OutsideTyped
    /\ PlaceTyped /\ CopyTyped
    /\ faults \in 0..MaxFaults

-----------------------------------------------------------------------------
(* The steps of a campaign.                                                *)

\* The sequence of a campaign, as a function of its step numbers.
LEMMA StepsFact == Len(Steps) \in Nat \ {0} /\ Steps \in [StepNo -> {"email", "wait"}]
<1>1. Steps \in Seq({"email", "wait"}) /\ Steps # <<>>
  BY OutreachAssumption
<1>2. Len(Steps) \in Nat
  BY <1>1
<1>3. Steps \in [1..Len(Steps) -> {"email", "wait"}]
  BY <1>1
<1>4. Len(Steps) # 0
  BY <1>1
<1> QED  BY <1>2, <1>3, <1>4 DEF StepNo

\* A set of numbers has a least one.
LEMMA Least ==
    ASSUME NEW i \in Nat, NEW n \in Nat, NEW T \in SUBSET (i..n), T # {}
    PROVE  \E k \in T : \A j \in T : k <= j
<1> DEFINE F == {i..k : k \in T}
           R == StrictSubsetOrdering(i..n)
<1>1. F # {} /\ F \subseteq FiniteSubsetsOf(i..n)
  <2>1. \A k \in T : i..k \subseteq i..n /\ IsFiniteSet(i..k)
    BY FS_Interval
  <2> QED  BY <2>1 DEF FiniteSubsetsOf
<1>2. IsWellFoundedOn(R, FiniteSubsetsOf(i..n))
  BY FS_StrictSubsetOrderingWellFounded
<1>3. PICK A \in F : \A B \in F : ~(<<B, A>> \in R)
  <2> HIDE DEF F, R
  <2> QED  BY <1>1, <1>2, WFMin
<1>4. PICK k \in T : A = i..k
  OBVIOUS
<1>5. ASSUME NEW j \in T, j < k
      PROVE  FALSE
  <2>1. i..j \subseteq i..k /\ i..j # i..k /\ i..k \subseteq i..n
    BY <1>5
  <2>2. <<i..j, A>> \in R
    BY <2>1, <1>4 DEF StrictSubsetOrdering
  <2> QED  BY <2>2, <1>3
<1> QED  BY <1>5

\* NextEmail skips what is no email, and nothing else.
LEMMA NextEmailFact ==
    ASSUME NEW i \in 1..(Len(Steps) + 1)
    PROVE  /\ NextEmail(i) \in i..(Len(Steps) + 1)
           /\ NextEmail(i) # Len(Steps) + 1 =>
                 NextEmail(i) \in StepNo /\ Steps[NextEmail(i)] = "email"
           /\ \A j \in i..(NextEmail(i) - 1) : Steps[j] # "email"
<1> DEFINE n == Len(Steps) + 1
           Good(k) == k = n \/ Steps[k] = "email"
           T == {k \in i..n : Good(k)}
<1>1. i \in Nat /\ n \in Nat /\ n \in T /\ i >= 1
  BY StepsFact
<1>2. PICK k \in T : \A j \in T : k <= j
  <2>1. T \in SUBSET (i..n) /\ T # {}
    BY <1>1
  <2> HIDE DEF T, n
  <2> QED  BY <1>1, <2>1, Least
<1>3. Good(k) /\ \A j \in i..(k - 1) : Steps[j] # "email"
  BY <1>1, <1>2
<1>4. \E m \in i..n : Good(m) /\ \A j \in i..(m - 1) : Steps[j] # "email"
  BY <1>3
<1>5. /\ NextEmail(i) \in i..n
      /\ Good(NextEmail(i))
      /\ \A j \in i..(NextEmail(i) - 1) : Steps[j] # "email"
  BY <1>4 DEF NextEmail
<1> QED  BY <1>1, <1>5 DEF StepNo

-----------------------------------------------------------------------------
(* Types.                                                                  *)

\* A campaign is created well typed ...
LEMMA TypedInit == Init => Typed
<1> SUFFICES ASSUME Init
             PROVE  Typed
  OBVIOUS
<1> 1 \in StepNo /\ MaxFaults \in Nat
  BY StepsFact, OutreachAssumption DEF StepNo
<1>1. CampTyped /\ ContactTyped /\ AddressTyped /\ MailTyped
  BY DEF Init, CampTyped, ContactTyped, AddressTyped, MailTyped
<1>2. OutsideTyped /\ PlaceTyped /\ CopyTyped
  BY DEF Init, OutsideTyped, PlaceTyped, CopyTyped, Working, BatchPC, NoSnap
<1> QED  BY <1>1, <1>2 DEF Init, Typed

\* ... and every action keeps it so.
LEMMA TypedStep == Typed /\ [Next]_vars => Typed'
<1> SUFFICES ASSUME Typed, [Next]_vars
             PROVE  Typed'
  OBVIOUS
<1> 1 \in StepNo /\ StepNo \subseteq Nat /\ MaxFaults \in Nat
  BY StepsFact, OutreachAssumption DEF StepNo
<1>0. /\ CampTyped /\ ContactTyped /\ AddressTyped /\ MailTyped /\ OutsideTyped
      /\ PlaceTyped /\ CopyTyped /\ faults \in 0..MaxFaults
  BY DEF Typed
<1>1. ASSUME LaunchRead
      PROVE  Typed'
  <2>1. CampTyped'
    BY <1>0, <1>1 DEF LaunchRead, CampTyped, camp
  <2>2. /\ ContactTyped' /\ AddressTyped' /\ MailTyped' /\ OutsideTyped'
        /\ PlaceTyped' /\ CopyTyped' /\ (faults \in 0..MaxFaults)'
    BY <1>0, <1>1 DEF LaunchRead, ContactTyped, AddressTyped, MailTyped, OutsideTyped,
       PlaceTyped, CopyTyped, camp, contact, address, mailbox, outside, batch
  <2> QED  BY <2>1, <2>2 DEF Typed
<1>2. ASSUME LaunchUpdate
      PROVE  Typed'
  <2>1. CampTyped'
    BY <1>0, <1>2 DEF LaunchUpdate, CampTyped, camp
  <2>2. /\ ContactTyped' /\ AddressTyped' /\ MailTyped' /\ OutsideTyped'
        /\ PlaceTyped' /\ CopyTyped' /\ (faults \in 0..MaxFaults)'
    BY <1>0, <1>2 DEF LaunchUpdate, ContactTyped, AddressTyped, MailTyped, OutsideTyped,
       PlaceTyped, CopyTyped, camp, contact, address, mailbox, outside, batch
  <2> QED  BY <2>1, <2>2 DEF Typed
<1>3. ASSUME NEW c \in Contact, LaunchAdd(c)
      PROVE  Typed'
  <2>1. ContactTyped'
    BY <1>0, <1>3 DEF LaunchAdd, Open, Done, ContactTyped, contact
  <2>2. /\ CampTyped' /\ AddressTyped' /\ MailTyped' /\ OutsideTyped'
        /\ PlaceTyped' /\ CopyTyped' /\ (faults \in 0..MaxFaults)'
    BY <1>0, <1>3 DEF LaunchAdd, CampTyped, AddressTyped, MailTyped, OutsideTyped,
       PlaceTyped, CopyTyped, camp, contact, address, mailbox, outside, batch
  <2> QED  BY <2>1, <2>2 DEF Typed
<1>4. ASSUME HandleCampaignPause
      PROVE  Typed'
  <2>1. CampTyped'
    BY <1>0, <1>4 DEF HandleCampaignPause, MoveCampaign, CampTyped, camp
  <2>2. /\ ContactTyped' /\ AddressTyped' /\ MailTyped' /\ OutsideTyped'
        /\ PlaceTyped' /\ CopyTyped' /\ (faults \in 0..MaxFaults)'
    BY <1>0, <1>4 DEF HandleCampaignPause, MoveCampaign, ContactTyped, AddressTyped,
       MailTyped, OutsideTyped, PlaceTyped, CopyTyped, camp, contact, address, mailbox, outside,
       batch
  <2> QED  BY <2>1, <2>2 DEF Typed
<1>5. ASSUME HandleCampaignCancel
      PROVE  Typed'
  <2>1. CampTyped'
    BY <1>0, <1>5 DEF HandleCampaignCancel, MoveCampaign, CampTyped, camp
  <2>2. /\ ContactTyped' /\ AddressTyped' /\ MailTyped' /\ OutsideTyped'
        /\ PlaceTyped' /\ CopyTyped' /\ (faults \in 0..MaxFaults)'
    BY <1>0, <1>5 DEF HandleCampaignCancel, MoveCampaign, ContactTyped, AddressTyped,
       MailTyped, OutsideTyped, PlaceTyped, CopyTyped, camp, contact, address, mailbox, outside,
       batch
  <2> QED  BY <2>1, <2>2 DEF Typed
<1>6. ASSUME OutreachTick
      PROVE  Typed'
  <2>1. CampTyped'
    BY <1>0, <1>6 DEF OutreachTick, MoveCampaign, CampTyped, camp
  <2>2. /\ ContactTyped' /\ AddressTyped' /\ MailTyped' /\ OutsideTyped'
        /\ PlaceTyped' /\ CopyTyped' /\ (faults \in 0..MaxFaults)'
    BY <1>0, <1>6 DEF OutreachTick, MoveCampaign, ContactTyped, AddressTyped, MailTyped,
       OutsideTyped, PlaceTyped, CopyTyped, camp, contact, address, mailbox, outside, batch
  <2> QED  BY <2>1, <2>2 DEF Typed
<1>7. ASSUME NEW c \in Contact, HandleInbound(c)
      PROVE  Typed'
  <2>1. ContactTyped'
    BY <1>0, <1>7 DEF HandleInbound, Fault, Open, Done, ContactTyped, contact
  <2>2. OutsideTyped'
    BY <1>0, <1>7 DEF HandleInbound, Fault, OutsideTyped, outside
  <2>3. (faults \in 0..MaxFaults)'
    BY <1>0, <1>7 DEF HandleInbound, Fault
  <2>4. /\ CampTyped' /\ AddressTyped' /\ MailTyped' /\ PlaceTyped'
        /\ CopyTyped'
    BY <1>0, <1>7 DEF HandleInbound, CampTyped, AddressTyped, MailTyped, PlaceTyped,
       CopyTyped, camp, contact, address, mailbox, outside, batch
  <2> QED  BY <2>1, <2>2, <2>3, <2>4 DEF Typed
<1>8. ASSUME NEW c \in Contact, UnsubSuppress(c)
      PROVE  Typed'
  <2>1. AddressTyped'
    BY <1>0, <1>8 DEF UnsubSuppress, Fault, AddressTyped, address
  <2>2. OutsideTyped'
    BY <1>0, <1>8 DEF UnsubSuppress, OutsideTyped, outside
  <2>3. /\ CampTyped' /\ ContactTyped' /\ MailTyped' /\ PlaceTyped'
        /\ CopyTyped' /\ (faults \in 0..MaxFaults)'
    BY <1>0, <1>8 DEF UnsubSuppress, Fault, CampTyped, ContactTyped, MailTyped, PlaceTyped,
       CopyTyped, camp, contact, address, mailbox, outside, batch
  <2> QED  BY <2>1, <2>2, <2>3 DEF Typed
<1>9. ASSUME NEW c \in Contact, UnsubContact(c)
      PROVE  Typed'
  <2>1. ContactTyped'
    BY <1>0, <1>9 DEF UnsubContact, Fault, Open, Done, ContactTyped, contact
  <2>2. OutsideTyped'
    BY <1>0, <1>9 DEF UnsubContact, Fault, OutsideTyped, outside
  <2>3. (faults \in 0..MaxFaults)'
    BY <1>0, <1>9 DEF UnsubContact, Fault
  <2>4. /\ CampTyped' /\ AddressTyped' /\ MailTyped' /\ PlaceTyped'
        /\ CopyTyped'
    BY <1>0, <1>9 DEF UnsubContact, CampTyped, AddressTyped, MailTyped, PlaceTyped,
       CopyTyped, camp, contact, address, mailbox, outside, batch
  <2> QED  BY <2>1, <2>2, <2>3, <2>4 DEF Typed
<1>10. ASSUME NEW c \in Contact, UnsubNotFound(c)
      PROVE  Typed'
  <2>1. OutsideTyped'
    BY <1>0, <1>10 DEF UnsubNotFound, OutsideTyped, outside
  <2>2. /\ CampTyped' /\ ContactTyped' /\ AddressTyped' /\ MailTyped'
        /\ PlaceTyped' /\ CopyTyped' /\ (faults \in 0..MaxFaults)'
    BY <1>0, <1>10 DEF UnsubNotFound, CampTyped, ContactTyped, AddressTyped, MailTyped,
       PlaceTyped, CopyTyped, camp, contact, address, mailbox, outside, batch
  <2> QED  BY <2>1, <2>2 DEF Typed
<1>11. ASSUME NEW b \in Batch, BatchStart(b)
      PROVE  Typed'
  <2>1. PlaceTyped'
    BY <1>0, <1>11 DEF BatchStart, Goto, PlaceTyped, Working, BatchPC, batch
  <2>2. /\ CampTyped' /\ ContactTyped' /\ AddressTyped' /\ MailTyped'
        /\ OutsideTyped' /\ CopyTyped' /\ (faults \in 0..MaxFaults)'
    BY <1>0, <1>11 DEF BatchStart, CampTyped, ContactTyped, AddressTyped, MailTyped,
       OutsideTyped, CopyTyped, camp, contact, address, mailbox, outside, batch
  <2> QED  BY <2>1, <2>2 DEF Typed
<1>12. ASSUME NEW b \in Batch, BatchRequeue(b)
      PROVE  Typed'
  <2>1. ContactTyped'
    BY <1>0, <1>12 DEF BatchRequeue, Goto, SetStatus, Open, Done, ContactTyped, contact
  <2>2. PlaceTyped'
    BY <1>0, <1>12 DEF BatchRequeue, Goto, SetStatus, PlaceTyped, Working, BatchPC, batch
  <2>3. /\ CampTyped' /\ AddressTyped' /\ MailTyped' /\ OutsideTyped'
        /\ CopyTyped'
    BY <1>0, <1>12 DEF BatchRequeue, CampTyped, AddressTyped, MailTyped, OutsideTyped,
       CopyTyped, camp, contact, address, mailbox, outside, batch
  <2>4. (faults \in 0..MaxFaults)'
    BY <1>0, <1>12 DEF BatchRequeue, Fault
  <2> QED  BY <2>1, <2>2, <2>3, <2>4 DEF Typed
<1>13. ASSUME NEW b \in Batch, BatchSelect(b)
      PROVE  Typed'
  <2>1. PlaceTyped'
    BY <1>0, <1>13 DEF BatchSelect, Goto, PlaceTyped, Working, BatchPC, batch
  <2>2. CopyTyped'
    BY <1>0, <1>13 DEF BatchSelect, Goto, CopyTyped, batch, ContactTyped, AddressTyped
  <2>3. /\ CampTyped' /\ ContactTyped' /\ AddressTyped' /\ MailTyped'
        /\ OutsideTyped' /\ (faults \in 0..MaxFaults)'
    BY <1>0, <1>13 DEF BatchSelect, CampTyped, ContactTyped, AddressTyped, MailTyped,
       OutsideTyped, camp, contact, address, mailbox, outside, batch
  <2> QED  BY <2>1, <2>2, <2>3 DEF Typed
<1>14. ASSUME NEW b \in Batch, BatchDrained(b)
      PROVE  Typed'
  <2>1. PlaceTyped'
    BY <1>0, <1>14 DEF BatchDrained, Forget, NoSnap, Goto, PlaceTyped, Working, BatchPC,
       batch
  <2>2. CopyTyped'
    BY <1>0, <1>14 DEF BatchDrained, Forget, NoSnap, Goto, CopyTyped, batch
  <2>3. /\ CampTyped' /\ ContactTyped' /\ AddressTyped' /\ MailTyped'
        /\ OutsideTyped' /\ (faults \in 0..MaxFaults)'
    BY <1>0, <1>14 DEF BatchDrained, Forget, NoSnap, CampTyped, ContactTyped, AddressTyped,
       MailTyped, OutsideTyped, camp, contact, address, mailbox, outside, batch
  <2> QED  BY <2>1, <2>2, <2>3 DEF Typed
<1>15. ASSUME NEW b \in Batch, NEW c \in Contact, BatchSkip(b, c)
      PROVE  Typed'
  <2>1. ContactTyped'
    BY <1>0, <1>15 DEF BatchSkip, SetStatus, Fault, Open, Done, ContactTyped, contact
  <2>2. CopyTyped'
    BY <1>0, <1>15 DEF BatchSkip, SetStatus, Fault, CopyTyped, batch
  <2>3. (faults \in 0..MaxFaults)'
    BY <1>0, <1>15 DEF BatchSkip, Fault
  <2>4. /\ CampTyped' /\ AddressTyped' /\ MailTyped' /\ OutsideTyped'
        /\ PlaceTyped'
    BY <1>0, <1>15 DEF BatchSkip, CampTyped, AddressTyped, MailTyped, OutsideTyped,
       PlaceTyped, camp, contact, address, mailbox, outside, batch
  <2> QED  BY <2>1, <2>2, <2>3, <2>4 DEF Typed
<1>16. ASSUME NEW b \in Batch, NEW c \in Contact, BatchPick(b, c)
      PROVE  Typed'
  <2>1. PlaceTyped'
    BY <1>0, <1>16 DEF BatchPick, Goto, Fault, PlaceTyped, Working, BatchPC, batch
  <2>2. CopyTyped'
    BY <1>0, <1>16 DEF BatchPick, Goto, Fault, CopyTyped, batch
  <2>3. (faults \in 0..MaxFaults)'
    BY <1>0, <1>16 DEF BatchPick, Fault
  <2>4. /\ CampTyped' /\ ContactTyped' /\ AddressTyped' /\ MailTyped'
        /\ OutsideTyped'
    BY <1>0, <1>16 DEF BatchPick, CampTyped, ContactTyped, AddressTyped, MailTyped,
       OutsideTyped, camp, contact, address, mailbox, outside, batch
  <2> QED  BY <2>1, <2>2, <2>3, <2>4 DEF Typed
<1>17. ASSUME NEW b \in Batch, BatchLimited(b)
      PROVE  Typed'
  <2>1. cur[b] \in Contact /\ idx[b] \in StepNo
    BY <1>0, <1>17 DEF BatchLimited, PlaceTyped, CopyTyped, Working
  <2>2. PlaceTyped'
    BY <1>0, <1>17, <2>1 DEF BatchLimited, Goto, PlaceTyped, Working, BatchPC, batch
  <2>3. CopyTyped'
    BY <1>0, <1>17, <2>1 DEF BatchLimited, Goto, CopyTyped, batch
  <2>4. /\ CampTyped' /\ ContactTyped' /\ AddressTyped' /\ MailTyped'
        /\ OutsideTyped' /\ (faults \in 0..MaxFaults)'
    BY <1>0, <1>17 DEF BatchLimited, CampTyped, ContactTyped, AddressTyped, MailTyped,
       OutsideTyped, camp, contact, address, mailbox, outside, batch
  <2> QED  BY <2>2, <2>3, <2>4 DEF Typed
<1>18. ASSUME NEW b \in Batch, BatchWalk(b)
      PROVE  Typed'
  <2>1. cur[b] \in Contact /\ idx[b] \in StepNo
    BY <1>0, <1>18 DEF BatchWalk, PlaceTyped, CopyTyped, Working
  <2>2. LET i == NextEmail(snap[b][cur[b]].step)
        IN  i \in 1..(Len(Steps) + 1) /\ (~(i > Len(Steps)) => i \in StepNo)
    <3> snap[b][cur[b]].step \in StepNo
      BY <1>0, <2>1 DEF CopyTyped
    <3> QED  BY StepsFact, NextEmailFact DEF StepNo
  <2>3. ContactTyped'
    BY <1>0, <1>18, <2>1, <2>2 DEF BatchWalk, Goto, SetStatus, Fault, Open, Done,
       ContactTyped, contact
  <2>4. PlaceTyped'
    BY <1>0, <1>18, <2>1, <2>2 DEF BatchWalk, Goto, SetStatus, Fault, PlaceTyped, Working,
       BatchPC, batch
  <2>5. CopyTyped'
    BY <1>0, <1>18, <2>1, <2>2 DEF BatchWalk, Goto, SetStatus, Fault, CopyTyped, batch
  <2>6. (faults \in 0..MaxFaults)'
    BY <1>0, <1>18 DEF BatchWalk, Fault
  <2>7. CampTyped' /\ AddressTyped' /\ MailTyped' /\ OutsideTyped'
    BY <1>0, <1>18 DEF BatchWalk, CampTyped, AddressTyped, MailTyped, OutsideTyped, camp,
       contact, address, mailbox, outside, batch
  <2> QED  BY <2>3, <2>4, <2>5, <2>6, <2>7 DEF Typed
<1>19. ASSUME NEW b \in Batch, BatchReply(b)
      PROVE  Typed'
  <2>1. cur[b] \in Contact /\ idx[b] \in StepNo
    BY <1>0, <1>19 DEF BatchReply, PlaceTyped, CopyTyped, Working
  <2>2. ContactTyped'
    BY <1>0, <1>19, <2>1 DEF BatchReply, Goto, SetStatus, Fault, Open, Done, ContactTyped,
       contact
  <2>3. PlaceTyped'
    BY <1>0, <1>19, <2>1 DEF BatchReply, Goto, SetStatus, Fault, PlaceTyped, Working,
       BatchPC, batch
  <2>4. (faults \in 0..MaxFaults)'
    BY <1>0, <1>19 DEF BatchReply, Fault
  <2>5. /\ CampTyped' /\ AddressTyped' /\ MailTyped' /\ OutsideTyped'
        /\ CopyTyped'
    BY <1>0, <1>19 DEF BatchReply, CampTyped, AddressTyped, MailTyped, OutsideTyped,
       CopyTyped, camp, contact, address, mailbox, outside, batch
  <2> QED  BY <2>2, <2>3, <2>4, <2>5 DEF Typed
<1>20. ASSUME NEW b \in Batch, BatchClaim(b)
      PROVE  Typed'
  <2>1. cur[b] \in Contact /\ idx[b] \in StepNo
    BY <1>0, <1>20 DEF BatchClaim, PlaceTyped, CopyTyped, Working
  <2>2. ContactTyped'
    BY <1>0, <1>20, <2>1 DEF BatchClaim, Goto, SetStatus, Fault, Open, Done, ContactTyped,
       contact
  <2>3. PlaceTyped'
    BY <1>0, <1>20, <2>1 DEF BatchClaim, Goto, SetStatus, Fault, PlaceTyped, Working,
       BatchPC, batch
  <2>4. (faults \in 0..MaxFaults)'
    BY <1>0, <1>20 DEF BatchClaim, Fault
  <2>5. /\ CampTyped' /\ AddressTyped' /\ MailTyped' /\ OutsideTyped'
        /\ CopyTyped'
    BY <1>0, <1>20 DEF BatchClaim, CampTyped, AddressTyped, MailTyped, OutsideTyped,
       CopyTyped, camp, contact, address, mailbox, outside, batch
  <2> QED  BY <2>2, <2>3, <2>4, <2>5 DEF Typed
<1>21. ASSUME NEW b \in Batch, BatchRecord(b)
      PROVE  Typed'
  <2>1. cur[b] \in Contact /\ idx[b] \in StepNo
    BY <1>0, <1>21 DEF BatchRecord, PlaceTyped, CopyTyped, Working
  <2>2. MailTyped'
    BY <1>0, <1>21, <2>1 DEF BatchRecord, Goto, MailTyped, mailbox
  <2>3. PlaceTyped'
    BY <1>0, <1>21, <2>1 DEF BatchRecord, Goto, PlaceTyped, Working, BatchPC, batch
  <2>4. /\ CampTyped' /\ ContactTyped' /\ AddressTyped' /\ OutsideTyped'
        /\ CopyTyped' /\ (faults \in 0..MaxFaults)'
    BY <1>0, <1>21 DEF BatchRecord, CampTyped, ContactTyped, AddressTyped, OutsideTyped,
       CopyTyped, camp, contact, address, mailbox, outside, batch
  <2> QED  BY <2>2, <2>3, <2>4 DEF Typed
<1>22. ASSUME NEW b \in Batch, BatchRecordError(b)
      PROVE  Typed'
  <2>1. cur[b] \in Contact /\ idx[b] \in StepNo
    BY <1>0, <1>22 DEF BatchRecordError, PlaceTyped, CopyTyped, Working
  <2>2. ContactTyped'
    BY <1>0, <1>22, <2>1 DEF BatchRecordError, Goto, SetStatus, Fault, Open, Done,
       ContactTyped, contact
  <2>3. PlaceTyped'
    BY <1>0, <1>22, <2>1 DEF BatchRecordError, Goto, SetStatus, Fault, PlaceTyped, Working,
       BatchPC, batch
  <2>4. (faults \in 0..MaxFaults)'
    BY <1>0, <1>22 DEF BatchRecordError, Fault
  <2>5. /\ CampTyped' /\ AddressTyped' /\ MailTyped' /\ OutsideTyped'
        /\ CopyTyped'
    BY <1>0, <1>22 DEF BatchRecordError, CampTyped, AddressTyped, MailTyped, OutsideTyped,
       CopyTyped, camp, contact, address, mailbox, outside, batch
  <2> QED  BY <2>2, <2>3, <2>4, <2>5 DEF Typed
<1>23. ASSUME NEW b \in Batch, BatchSend(b)
      PROVE  Typed'
  <2>1. cur[b] \in Contact /\ idx[b] \in StepNo
    BY <1>0, <1>23 DEF BatchSend, PlaceTyped, CopyTyped, Working
  <2>2. OutsideTyped'
    <3>1. CASE Deliver(cur[b], idx[b])
      <4>0. delivered[cur[b]] \in [StepNo -> Nat] /\ late[cur[b]] \in Nat
        BY <1>0, <2>1 DEF OutsideTyped
      <4>5. delivered[cur[b]][idx[b]] \in Nat
        BY <4>0, <2>1
      <4>1. delivered[cur[b]][idx[b]] + 1 \in Nat /\ late[cur[b]] + 1 \in Nat
        BY <4>0, <4>5
      <4>2. delivered' \in [Contact -> [StepNo -> Nat]]
        BY <1>0, <2>1, <3>1, <4>1 DEF Deliver, OutsideTyped
      <4>3. late' \in [Contact -> Nat]
        BY <1>0, <2>1, <3>1, <4>1 DEF Deliver, OutsideTyped
      <4> QED  BY <1>0, <1>23, <4>2, <4>3 DEF BatchSend, OutsideTyped
    <3>2. CASE UNCHANGED <<delivered, late>>
      BY <1>0, <1>23, <3>2 DEF BatchSend, OutsideTyped
    <3> QED  BY <1>23, <3>1, <3>2 DEF BatchSend
  <2>3. PlaceTyped'
    BY <1>0, <1>23, <2>1 DEF BatchSend, Deliver, Goto, PlaceTyped, Working, BatchPC, batch
  <2>4. /\ CampTyped' /\ ContactTyped' /\ AddressTyped' /\ MailTyped'
        /\ CopyTyped' /\ (faults \in 0..MaxFaults)'
    BY <1>0, <1>23 DEF BatchSend, Deliver, CampTyped, ContactTyped, AddressTyped, MailTyped,
       CopyTyped, camp, contact, address, mailbox, outside, batch
  <2> QED  BY <2>2, <2>3, <2>4 DEF Typed
<1>24. ASSUME NEW b \in Batch, BatchBounce(b)
      PROVE  Typed'
  <2>1. cur[b] \in Contact /\ idx[b] \in StepNo
    BY <1>0, <1>24 DEF BatchBounce, PlaceTyped, CopyTyped, Working
  <2>2. ContactTyped'
    BY <1>0, <1>24, <2>1 DEF BatchBounce, Goto, SetStatus, Open, Done, ContactTyped, contact
  <2>3. PlaceTyped'
    BY <1>0, <1>24, <2>1 DEF BatchBounce, Goto, SetStatus, PlaceTyped, Working, BatchPC,
       batch
  <2>4. /\ CampTyped' /\ AddressTyped' /\ MailTyped' /\ OutsideTyped'
        /\ CopyTyped' /\ (faults \in 0..MaxFaults)'
    BY <1>0, <1>24 DEF BatchBounce, CampTyped, AddressTyped, MailTyped, OutsideTyped,
       CopyTyped, camp, contact, address, mailbox, outside, batch
  <2> QED  BY <2>2, <2>3, <2>4 DEF Typed
<1>25. ASSUME NEW b \in Batch, BatchSuppress(b)
      PROVE  Typed'
  <2>1. cur[b] \in Contact /\ idx[b] \in StepNo
    BY <1>0, <1>25 DEF BatchSuppress, PlaceTyped, CopyTyped, Working
  <2>2. AddressTyped'
    BY <1>0, <1>25, <2>1 DEF BatchSuppress, Goto, AddressTyped, address
  <2>3. MailTyped'
    BY <1>0, <1>25, <2>1 DEF BatchSuppress, Goto, MailTyped, mailbox
  <2>4. PlaceTyped'
    BY <1>0, <1>25, <2>1 DEF BatchSuppress, Goto, PlaceTyped, Working, BatchPC, batch
  <2>5. CampTyped' /\ ContactTyped' /\ OutsideTyped' /\ CopyTyped' /\ (faults \in 0..MaxFaults)'
    BY <1>0, <1>25 DEF BatchSuppress, CampTyped, ContactTyped, OutsideTyped, CopyTyped, camp,
       contact, address, mailbox, outside, batch
  <2> QED  BY <2>2, <2>3, <2>4, <2>5 DEF Typed
<1>26. ASSUME NEW b \in Batch, BatchFail(b)
      PROVE  Typed'
  <2>1. cur[b] \in Contact /\ idx[b] \in StepNo
    BY <1>0, <1>26 DEF BatchFail, PlaceTyped, CopyTyped, Working
  <2>2. ContactTyped'
    BY <1>0, <1>26, <2>1 DEF BatchFail, Goto, SetStatus, Open, Done, ContactTyped, contact
  <2>3. MailTyped'
    BY <1>0, <1>26, <2>1 DEF BatchFail, Goto, SetStatus, MailTyped, mailbox
  <2>4. PlaceTyped'
    BY <1>0, <1>26, <2>1 DEF BatchFail, Goto, SetStatus, PlaceTyped, Working, BatchPC, batch
  <2>5. CampTyped' /\ AddressTyped' /\ OutsideTyped' /\ CopyTyped' /\ (faults \in 0..MaxFaults)'
    BY <1>0, <1>26 DEF BatchFail, CampTyped, AddressTyped, OutsideTyped, CopyTyped, camp,
       contact, address, mailbox, outside, batch
  <2> QED  BY <2>2, <2>3, <2>4, <2>5 DEF Typed
<1>27. ASSUME NEW b \in Batch, BatchMark(b)
      PROVE  Typed'
  <2>1. cur[b] \in Contact /\ idx[b] \in StepNo
    BY <1>0, <1>27 DEF BatchMark, PlaceTyped, CopyTyped, Working
  <2>2. MailTyped'
    BY <1>0, <1>27, <2>1 DEF BatchMark, Goto, MailTyped, mailbox
  <2>3. PlaceTyped'
    BY <1>0, <1>27, <2>1 DEF BatchMark, Goto, PlaceTyped, Working, BatchPC, batch
  <2>4. /\ CampTyped' /\ ContactTyped' /\ AddressTyped' /\ OutsideTyped'
        /\ CopyTyped' /\ (faults \in 0..MaxFaults)'
    BY <1>0, <1>27 DEF BatchMark, CampTyped, ContactTyped, AddressTyped, OutsideTyped,
       CopyTyped, camp, contact, address, mailbox, outside, batch
  <2> QED  BY <2>2, <2>3, <2>4 DEF Typed
<1>28. ASSUME NEW b \in Batch, BatchAdvance(b)
      PROVE  Typed'
  <2>1. cur[b] \in Contact /\ idx[b] \in StepNo
    BY <1>0, <1>28 DEF BatchAdvance, PlaceTyped, CopyTyped, Working
  <2>2. LET i == NextEmail(idx[b] + 1)
        IN  i \in 1..(Len(Steps) + 1) /\ (~(i > Len(Steps)) => i \in StepNo)
    BY <2>1, StepsFact, NextEmailFact DEF StepNo
  <2>3. ContactTyped'
    BY <1>0, <1>28, <2>1, <2>2 DEF BatchAdvance, Goto, SetStatus, Open, Done, ContactTyped,
       contact
  <2>4. PlaceTyped'
    BY <1>0, <1>28, <2>1, <2>2 DEF BatchAdvance, Goto, SetStatus, PlaceTyped, Working,
       BatchPC, batch
  <2>5. /\ CampTyped' /\ AddressTyped' /\ MailTyped' /\ OutsideTyped'
        /\ CopyTyped' /\ (faults \in 0..MaxFaults)'
    BY <1>0, <1>28 DEF BatchAdvance, CampTyped, AddressTyped, MailTyped, OutsideTyped,
       CopyTyped, camp, contact, address, mailbox, outside, batch
  <2> QED  BY <2>3, <2>4, <2>5 DEF Typed
<1>29. ASSUME NEW b \in Batch, BatchWriteError(b)
      PROVE  Typed'
  <2>1. cur[b] \in Contact /\ idx[b] \in StepNo
    BY <1>0, <1>29 DEF BatchWriteError, PlaceTyped, CopyTyped, Working
  <2>2. PlaceTyped'
    BY <1>0, <1>29, <2>1 DEF BatchWriteError, Goto, Fault, PlaceTyped, Working, BatchPC,
       batch
  <2>3. (faults \in 0..MaxFaults)'
    BY <1>0, <1>29 DEF BatchWriteError, Fault
  <2>4. /\ CampTyped' /\ ContactTyped' /\ AddressTyped' /\ MailTyped'
        /\ OutsideTyped' /\ CopyTyped'
    BY <1>0, <1>29 DEF BatchWriteError, CampTyped, ContactTyped, AddressTyped, MailTyped,
       OutsideTyped, CopyTyped, camp, contact, address, mailbox, outside, batch
  <2> QED  BY <2>2, <2>3, <2>4 DEF Typed
<1>30. ASSUME NEW b \in Batch, BatchCount(b)
      PROVE  Typed'
  <2>1. PlaceTyped'
    BY <1>0, <1>30 DEF BatchCount, Goto, PlaceTyped, Working, BatchPC, batch
  <2>2. /\ CampTyped' /\ ContactTyped' /\ AddressTyped' /\ MailTyped'
        /\ OutsideTyped' /\ CopyTyped'
    BY <1>0, <1>30 DEF BatchCount, CampTyped, ContactTyped, AddressTyped, MailTyped,
       OutsideTyped, CopyTyped, camp, contact, address, mailbox, outside, batch
  <2>3. (faults \in 0..MaxFaults)'
    BY <1>0, <1>30 DEF BatchCount, Fault
  <2> QED  BY <2>1, <2>2, <2>3 DEF Typed
<1>31. ASSUME NEW b \in Batch, BatchComplete(b)
      PROVE  Typed'
  <2>1. CampTyped'
    BY <1>0, <1>31 DEF BatchComplete, Goto, CampTyped, camp
  <2>2. PlaceTyped'
    BY <1>0, <1>31 DEF BatchComplete, Goto, PlaceTyped, Working, BatchPC, batch
  <2>3. /\ ContactTyped' /\ AddressTyped' /\ MailTyped' /\ OutsideTyped'
        /\ CopyTyped' /\ (faults \in 0..MaxFaults)'
    BY <1>0, <1>31 DEF BatchComplete, ContactTyped, AddressTyped, MailTyped, OutsideTyped,
       CopyTyped, camp, contact, address, mailbox, outside, batch
  <2> QED  BY <2>1, <2>2, <2>3 DEF Typed
<1>32. ASSUME NEW b \in Batch, BatchLost(b)
      PROVE  Typed'
  <2>1. PlaceTyped'
    BY <1>0, <1>32 DEF BatchLost, Forget, NoSnap, Goto, Fault, PlaceTyped, Working, BatchPC,
       batch
  <2>2. CopyTyped'
    BY <1>0, <1>32 DEF BatchLost, Forget, NoSnap, Goto, Fault, CopyTyped, batch
  <2>3. (faults \in 0..MaxFaults)'
    BY <1>0, <1>32 DEF BatchLost, Forget, NoSnap, Fault
  <2>4. /\ CampTyped' /\ ContactTyped' /\ AddressTyped' /\ MailTyped'
        /\ OutsideTyped'
    BY <1>0, <1>32 DEF BatchLost, Forget, NoSnap, CampTyped, ContactTyped, AddressTyped,
       MailTyped, OutsideTyped, camp, contact, address, mailbox, outside, batch
  <2> QED  BY <2>1, <2>2, <2>3, <2>4 DEF Typed
<1>33. ASSUME NEW c \in Contact, DaysPass(c)
      PROVE  Typed'
  <2>1. ContactTyped'
    BY <1>0, <1>33 DEF DaysPass, Open, Done, ContactTyped, contact
  <2>2. /\ CampTyped' /\ AddressTyped' /\ MailTyped' /\ OutsideTyped'
        /\ PlaceTyped' /\ CopyTyped' /\ (faults \in 0..MaxFaults)'
    BY <1>0, <1>33 DEF DaysPass, CampTyped, AddressTyped, MailTyped, OutsideTyped,
       PlaceTyped, CopyTyped, camp, contact, address, mailbox, outside, batch
  <2> QED  BY <2>1, <2>2 DEF Typed
<1>34. ASSUME NEW c \in Contact, Abandon(c)
      PROVE  Typed'
  <2>1. ContactTyped'
    BY <1>0, <1>34 DEF Abandon, Open, Done, ContactTyped, contact
  <2>2. /\ CampTyped' /\ AddressTyped' /\ MailTyped' /\ OutsideTyped'
        /\ PlaceTyped' /\ CopyTyped' /\ (faults \in 0..MaxFaults)'
    BY <1>0, <1>34 DEF Abandon, CampTyped, AddressTyped, MailTyped, OutsideTyped, PlaceTyped,
       CopyTyped, camp, contact, address, mailbox, outside, batch
  <2> QED  BY <2>1, <2>2 DEF Typed
<1>35. ASSUME HourPasses
      PROVE  Typed'
  <2>1. MailTyped'
    BY <1>0, <1>35 DEF HourPasses, MailTyped, mailbox
  <2>2. /\ CampTyped' /\ ContactTyped' /\ AddressTyped' /\ OutsideTyped'
        /\ PlaceTyped' /\ CopyTyped' /\ (faults \in 0..MaxFaults)'
    BY <1>0, <1>35 DEF HourPasses, CampTyped, ContactTyped, AddressTyped, OutsideTyped,
       PlaceTyped, CopyTyped, camp, contact, address, mailbox, outside, batch
  <2> QED  BY <2>1, <2>2 DEF Typed
<1>36. CASE UNCHANGED vars
  BY <1>0, <1>36 DEF Typed, CampTyped, ContactTyped, AddressTyped, MailTyped, OutsideTyped,
     PlaceTyped, CopyTyped, vars, camp, contact, address, mailbox, outside, batch
<1> QED
  BY <1>1, <1>2, <1>3, <1>4, <1>5, <1>6, <1>7, <1>8, <1>9, <1>10, <1>11, <1>12, <1>13, <1>14,
     <1>15, <1>16, <1>17, <1>18, <1>19, <1>20, <1>21, <1>22, <1>23, <1>24, <1>25, <1>26, <1>27,
     <1>28, <1>29, <1>30, <1>31, <1>32, <1>33, <1>34, <1>35, <1>36
  DEF Next, UserStep, ContactStep, BatchStep
-----------------------------------------------------------------------------
(* The order of the steps.                                                 *)

\* The email steps before step k have been delivered, by the counts d.
Covered(d, k) == \A i \in StepNo : i < k /\ Steps[i] = "email" => d[i] > 0

\* Where a batch is past the choice of the step, and past its delivery.
Chosen == {"reply", "claim", "record", "smtp", "mark", "bounce", "fail", "advance"}
Taken  == {"mark", "advance"}

\* Nobody is at a step, in the row, in a copy or on the way, with a step
\* before it left out; what is marked sent or about to be advanced is sent.
Ordered ==
    /\ \A c \in Contact, j \in StepNo : delivered[c][j] > 0 => Covered(delivered[c], j)
    /\ \A c \in Contact : Covered(delivered[c], step[c])
    /\ \A b \in Batch, c \in Contact : Covered(delivered[c], snap[b][c].step)
    /\ \A b \in Batch : pc[b] \in Chosen => Covered(delivered[cur[b]], idx[b])
    /\ \A b \in Batch : pc[b] \in Taken => delivered[cur[b]][idx[b]] > 0
    /\ \A c \in Contact, i \in StepNo : message[c][i] = "sent" => delivered[c][i] > 0

\* What is covered up to a step is covered up to the email it stands for ...
LEMMA CoveredTo ==
    ASSUME NEW d, NEW s \in StepNo, Covered(d, s)
    PROVE  Covered(d, NextEmail(s))
<1> s \in 1..(Len(Steps) + 1)
  BY StepsFact DEF StepNo
<1> QED  BY StepsFact, NextEmailFact DEF Covered, StepNo

\* ... and with that email up to the next.
LEMMA CoveredPast ==
    ASSUME NEW d, NEW s \in StepNo, Covered(d, s), d[s] > 0
    PROVE  Covered(d, NextEmail(s + 1))
<1> s + 1 \in 1..(Len(Steps) + 1) /\ s \in Nat
  BY StepsFact DEF StepNo
<1> QED  BY StepsFact, NextEmailFact DEF Covered, StepNo

\* No mail is out of order before the first one ...
LEMMA OrderedInit == Init => Ordered
  BY StepsFact DEF Init, Ordered, Covered, StepNo, Chosen, Taken, NoSnap

\* ... and no action, a batch on an old copy included, leaves a step out.
LEMMA OrderedStep == Typed /\ Ordered /\ [Next]_vars => Ordered'
<1> SUFFICES ASSUME Typed, Ordered, [Next]_vars
             PROVE  Ordered'
  OBVIOUS
<1>0. /\ ContactTyped /\ MailTyped /\ OutsideTyped /\ PlaceTyped /\ CopyTyped
      /\ Ordered /\ 1 \in StepNo
  BY StepsFact DEF Typed, StepNo
<1>1. ASSUME NEW b \in Batch, BatchStart(b)
      PROVE  Ordered'
  BY <1>0, <1>1 DEF BatchStart, Goto, Ordered, Chosen, Taken, PlaceTyped, CopyTyped,
     MailTyped, camp, contact, address, mailbox, outside, batch
<1>2. ASSUME NEW b \in Batch, BatchRequeue(b)
      PROVE  Ordered'
  BY <1>0, <1>2 DEF BatchRequeue, Goto, SetStatus, Ordered, Chosen, Taken, PlaceTyped,
     CopyTyped, MailTyped, camp, contact, address, mailbox, outside, batch
<1>3. ASSUME NEW b \in Batch, BatchSelect(b)
      PROVE  Ordered'
  BY <1>0, <1>3 DEF BatchSelect, Goto, Ordered, Chosen, Taken, PlaceTyped, CopyTyped,
     MailTyped, camp, contact, address, mailbox, outside, batch
<1>4. ASSUME NEW b \in Batch, BatchDrained(b)
      PROVE  Ordered'
  <2>1. /\ UNCHANGED <<delivered, step, message>>
        /\ \A a \in Batch \ {b} : /\ pc'[a] = pc[a] /\ cur'[a] = cur[a] /\ idx'[a] = idx[a]
                                  /\ snap'[a] = snap[a]
        /\ pc'[b] \notin Chosen \cup Taken
        /\ snap'[b] = NoSnap
    BY <1>0, <1>4 DEF BatchDrained, Forget, Goto, Chosen, Taken, PlaceTyped, CopyTyped, contact,
       mailbox, outside
  <2>2. \A c \in Contact : Covered(delivered[c], NoSnap[c].step)
    BY DEF NoSnap, Covered, StepNo
  <2> QED  BY <1>0, <2>1, <2>2 DEF Ordered
<1>5. ASSUME NEW b \in Batch, NEW c \in Contact, BatchPick(b, c)
      PROVE  Ordered'
  BY <1>0, <1>5 DEF BatchPick, Goto, Fault, Ordered, Chosen, Taken, PlaceTyped, CopyTyped,
     MailTyped, camp, contact, address, mailbox, outside, batch
<1>6. ASSUME NEW b \in Batch, BatchLimited(b)
      PROVE  Ordered'
  BY <1>0, <1>6 DEF BatchLimited, Goto, Ordered, Chosen, Taken, PlaceTyped, CopyTyped,
     MailTyped, camp, contact, address, mailbox, outside, batch
<1>7. ASSUME NEW b \in Batch, BatchWalk(b)
      PROVE  Ordered'
  <2>1. cur[b] \in Contact /\ snap[b][cur[b]].step \in StepNo
    BY <1>0, <1>7 DEF BatchWalk, PlaceTyped, CopyTyped, Working
  <2>2. Covered(delivered[cur[b]], NextEmail(snap[b][cur[b]].step))
    BY <1>0, <2>1, CoveredTo DEF Ordered
  <2>3. /\ UNCHANGED <<delivered, step, snap, cur, message>>
        /\ \A a \in Batch \ {b} : pc'[a] = pc[a] /\ idx'[a] = idx[a]
        /\ pc'[b] \notin Taken
        /\ pc'[b] \in Chosen => idx'[b] = NextEmail(snap[b][cur[b]].step)
    BY <1>0, <1>7 DEF BatchWalk, Goto, Chosen, Taken, PlaceTyped, CopyTyped, mailbox, outside
  <2> QED  BY <1>0, <2>1, <2>2, <2>3 DEF Ordered
<1>8. ASSUME NEW b \in Batch, BatchReply(b)
      PROVE  Ordered'
  BY <1>0, <1>8 DEF BatchReply, Goto, SetStatus, Fault, Ordered, Chosen, Taken, PlaceTyped,
     CopyTyped, MailTyped, camp, contact, address, mailbox, outside, batch
<1>9. ASSUME NEW b \in Batch, BatchClaim(b)
      PROVE  Ordered'
  BY <1>0, <1>9 DEF BatchClaim, Goto, SetStatus, Fault, Ordered, Chosen, Taken, PlaceTyped,
     CopyTyped, MailTyped, camp, contact, address, mailbox, outside, batch
<1>10. ASSUME NEW b \in Batch, BatchRecord(b)
      PROVE  Ordered'
  <2>1. cur[b] \in Contact /\ idx[b] \in StepNo
    BY <1>0, <1>10 DEF BatchRecord, PlaceTyped, CopyTyped, Working
  <2>2. /\ UNCHANGED <<delivered, step, snap, cur, idx>>
        /\ \A a \in Batch \ {b} : pc'[a] = pc[a]
        /\ pc[b] \in Chosen
        /\ pc'[b] \in Taken => message[cur[b]][idx[b]] = "sent"
        /\ \A c \in Contact, i \in StepNo : message'[c][i] = "sent" => message[c][i] = "sent"
    BY <1>0, <2>1, <1>10 DEF BatchRecord, Goto, Chosen, Taken, PlaceTyped, MailTyped, contact,
       outside
  <2> QED  BY <1>0, <2>1, <2>2 DEF Ordered
<1>11. ASSUME NEW b \in Batch, BatchRecordError(b)
      PROVE  Ordered'
  BY <1>0, <1>11 DEF BatchRecordError, Goto, SetStatus, Fault, Ordered, Chosen, Taken,
     PlaceTyped, CopyTyped, MailTyped, camp, contact, address, mailbox, outside, batch
<1>12. ASSUME NEW b \in Batch, BatchSend(b)
      PROVE  Ordered'
  <2> DEFINE c == cur[b]
             i == idx[b]
  <2>1. c \in Contact /\ i \in StepNo /\ pc[b] = "smtp"
    BY <1>0, <1>12 DEF BatchSend, PlaceTyped, CopyTyped, Working
  <2>2. /\ \A a \in Contact, j \in StepNo : delivered[a][j] \in Nat /\ delivered'[a][j] \in Nat
        /\ \A a \in Contact, j \in StepNo : delivered'[a][j] >= delivered[a][j]
        /\ \A a \in Contact, j \in StepNo :
              a # c \/ j # i => delivered'[a][j] = delivered[a][j]
        /\ pc'[b] = "mark" => delivered'[c][i] > 0
    <3>1. \A a \in Contact, j \in StepNo : delivered[a][j] \in Nat
      BY <1>0 DEF OutsideTyped
    <3>2. CASE Deliver(c, i)
      <4>1. delivered' = [delivered EXCEPT ![c] = [delivered[c] EXCEPT ![i] = delivered[c][i] + 1]]
        BY <3>2 DEF Deliver
      <4>2. delivered \in [Contact -> [StepNo -> Nat]] /\ delivered[c][i] \in Nat
        BY <1>0, <2>1, <3>1 DEF OutsideTyped
      <4> HIDE DEF c, i
      <4>3. \A a \in Contact : delivered[a] \in [StepNo -> Nat]
        BY <4>2
      <4>4. /\ \A a \in Contact : a # c => delivered'[a] = delivered[a]
            /\ delivered'[c] = [delivered[c] EXCEPT ![i] = delivered[c][i] + 1]
        BY <2>1, <4>1, <4>2
      <4>5. /\ \A j \in StepNo : j # i => delivered'[c][j] = delivered[c][j]
            /\ delivered'[c][i] = delivered[c][i] + 1
        BY <2>1, <4>3, <4>4
      <4> QED  BY <2>1, <3>1, <4>2, <4>4, <4>5
    <3>3. CASE delivered' = delivered /\ pc'[b] # "mark"
      BY <3>1, <3>3
    <3> QED  BY <1>0, <2>1, <3>2, <3>3, <1>12 DEF BatchSend, Goto, PlaceTyped
  <2>3. \A a \in Contact, j \in Int : Covered(delivered[a], j) => Covered(delivered'[a], j)
    BY <2>2 DEF Covered, StepNo
  <2>4. /\ UNCHANGED <<step, snap, cur, idx, message>>
        /\ \A a \in Batch \ {b} : pc'[a] = pc[a]
        /\ pc'[b] \in {"mark", "bounce", "fail"}
    BY <1>0, <1>12 DEF BatchSend, Goto, PlaceTyped, contact, mailbox
  <2>5. \A a \in Contact, j \in StepNo : delivered'[a][j] > 0 => Covered(delivered'[a], j)
    BY <1>0, <2>1, <2>2, <2>3 DEF Ordered, Chosen, StepNo
  <2>6. /\ \A a \in Contact : Covered(delivered'[a], step[a])
        /\ \A a \in Batch, e \in Contact : Covered(delivered'[e], snap[a][e].step)
    BY <1>0, <2>3 DEF Ordered, ContactTyped, CopyTyped, StepNo
  <2>7. \A a \in Batch : pc'[a] \in Chosen => Covered(delivered'[cur[a]], idx[a])
    <3> SUFFICES ASSUME NEW a \in Batch, pc'[a] \in Chosen
                 PROVE  Covered(delivered'[cur[a]], idx[a])
      OBVIOUS
    <3>1. pc[a] \in Chosen /\ cur[a] \in Contact /\ idx[a] \in Int
      BY <1>0, <2>1, <2>4 DEF Chosen, PlaceTyped, CopyTyped, Working, StepNo
    <3> QED  BY <1>0, <2>3, <3>1 DEF Ordered
  <2>8. \A a \in Batch : pc'[a] \in Taken => delivered'[cur[a]][idx[a]] > 0
    <3> SUFFICES ASSUME NEW a \in Batch, pc'[a] \in Taken
                 PROVE  delivered'[cur[a]][idx[a]] > 0
      OBVIOUS
    <3>1. CASE a = b
      BY <2>2, <2>4, <3>1 DEF Taken
    <3>2. CASE a # b
      <4>1. cur[a] \in Contact /\ idx[a] \in StepNo /\ delivered[cur[a]][idx[a]] > 0
        BY <1>0, <2>4, <3>2 DEF Taken, Ordered, PlaceTyped, CopyTyped, Working
      <4>2. delivered'[cur[a]][idx[a]] >= delivered[cur[a]][idx[a]]
        BY <2>2, <4>1
      <4> QED  BY <2>2, <4>1, <4>2
    <3> QED  BY <3>1, <3>2
  <2>9. \A a \in Contact, j \in StepNo : message[a][j] = "sent" => delivered'[a][j] > 0
    <3> SUFFICES ASSUME NEW a \in Contact, NEW j \in StepNo, message[a][j] = "sent"
                 PROVE  delivered'[a][j] > 0
      OBVIOUS
    <3>1. delivered[a][j] > 0 /\ delivered'[a][j] >= delivered[a][j]
      BY <1>0, <2>2 DEF Ordered
    <3> QED  BY <2>2, <3>1
  <2> QED  BY <2>4, <2>5, <2>6, <2>7, <2>8, <2>9 DEF Ordered
<1>13. ASSUME NEW b \in Batch, BatchBounce(b)
      PROVE  Ordered'
  BY <1>0, <1>13 DEF BatchBounce, Goto, SetStatus, Ordered, Chosen, Taken, PlaceTyped,
     CopyTyped, MailTyped, camp, contact, address, mailbox, outside, batch
<1>14. ASSUME NEW b \in Batch, BatchSuppress(b)
      PROVE  Ordered'
  BY <1>0, <1>14 DEF BatchSuppress, Goto, Ordered, Chosen, Taken, PlaceTyped, CopyTyped,
     MailTyped, camp, contact, address, mailbox, outside, batch
<1>15. ASSUME NEW b \in Batch, BatchFail(b)
      PROVE  Ordered'
  BY <1>0, <1>15 DEF BatchFail, Goto, SetStatus, Ordered, Chosen, Taken, PlaceTyped,
     CopyTyped, MailTyped, camp, contact, address, mailbox, outside, batch
<1>16. ASSUME NEW b \in Batch, BatchMark(b)
      PROVE  Ordered'
  BY <1>0, <1>16 DEF BatchMark, Goto, Ordered, Chosen, Taken, PlaceTyped, CopyTyped,
     MailTyped, camp, contact, address, mailbox, outside, batch
<1>17. ASSUME NEW b \in Batch, BatchAdvance(b)
      PROVE  Ordered'
  <2>1. cur[b] \in Contact /\ idx[b] \in StepNo
    BY <1>0, <1>17 DEF BatchAdvance, PlaceTyped, CopyTyped, Working
  <2>2. /\ Covered(delivered[cur[b]], idx[b])
        /\ Covered(delivered[cur[b]], NextEmail(idx[b] + 1))
    BY <1>0, <2>1, <1>17, CoveredPast DEF BatchAdvance, Ordered, Chosen, Taken
  <2>3. \A c \in Contact : Covered(delivered[c], step'[c])
    BY <1>0, <2>1, <2>2, <1>17 DEF BatchAdvance, Ordered, ContactTyped
  <2> QED
    BY <1>0, <2>3, <1>17
    DEF BatchAdvance, Goto, Ordered, Chosen, Taken, PlaceTyped, mailbox, outside
<1>18. ASSUME NEW b \in Batch, BatchWriteError(b)
      PROVE  Ordered'
  BY <1>0, <1>18 DEF BatchWriteError, Goto, Fault, Ordered, Chosen, Taken, PlaceTyped,
     CopyTyped, MailTyped, camp, contact, address, mailbox, outside, batch
<1>19. ASSUME NEW b \in Batch, BatchCount(b)
      PROVE  Ordered'
  BY <1>0, <1>19 DEF BatchCount, Goto, Ordered, Chosen, Taken, PlaceTyped, CopyTyped,
     MailTyped, camp, contact, address, mailbox, outside, batch
<1>20. ASSUME NEW b \in Batch, BatchComplete(b)
      PROVE  Ordered'
  BY <1>0, <1>20 DEF BatchComplete, Goto, Ordered, Chosen, Taken, PlaceTyped, CopyTyped,
     MailTyped, camp, contact, address, mailbox, outside, batch
<1>21. ASSUME NEW b \in Batch, BatchLost(b)
      PROVE  Ordered'
  <2>1. /\ UNCHANGED <<delivered, step, message>>
        /\ \A a \in Batch \ {b} : /\ pc'[a] = pc[a] /\ cur'[a] = cur[a] /\ idx'[a] = idx[a]
                                  /\ snap'[a] = snap[a]
        /\ pc'[b] \notin Chosen \cup Taken
        /\ snap'[b] = NoSnap
    BY <1>0, <1>21 DEF BatchLost, Forget, Goto, Fault, Chosen, Taken, PlaceTyped, CopyTyped,
       contact, mailbox, outside
  <2>2. \A c \in Contact : Covered(delivered[c], NoSnap[c].step)
    BY DEF NoSnap, Covered, StepNo
  <2> QED  BY <1>0, <2>1, <2>2 DEF Ordered
<1>22. CASE UNCHANGED <<step, message, delivered, pc, snap, cur, idx>>
  BY <1>0, <1>22 DEF Ordered, Chosen, Taken, PlaceTyped, CopyTyped, MailTyped
<1> QED
  BY <1>1, <1>2, <1>3, <1>4, <1>5, <1>6, <1>7, <1>8, <1>9, <1>10, <1>11, <1>12, <1>13, <1>14,
     <1>15, <1>16, <1>17, <1>18, <1>19, <1>20, <1>21, <1>22
  DEF Next, UserStep, ContactStep, BatchStep, vars, camp, contact, address, mailbox,
      outside, batch, LaunchRead, LaunchUpdate, LaunchAdd, HandleCampaignPause, MoveCampaign,
      HandleCampaignCancel, OutreachTick, HandleInbound, UnsubSuppress, UnsubContact,
      UnsubNotFound, BatchSkip, DaysPass, Abandon, HourPasses
-----------------------------------------------------------------------------
(* The hourly limit.                                                       *)

\* The batches that have passed the limit and not yet counted a message.
PastLimit == {b \in Batch : pc[b] \in Passed}

\* A batch that passes finds a message less than the limit, and the others
\* are at most all past it already.
Places ==
    /\ IsFiniteSet(recent)
    /\ HourlyLimit > 0 =>
          Cardinality(recent) + Cardinality(PastLimit)
              <= HourlyLimit + Cardinality(Batch) - 1 + faults

\* The counts of the limit are numbers: there are finitely many batches.
LEMMA BatchesFinite ==
    /\ IsFiniteSet(Batch) /\ Cardinality(Batch) \in Nat
    /\ IsFiniteSet(PastLimit) /\ Cardinality(PastLimit) \in Nat
    /\ Cardinality(PastLimit) <= Cardinality(Batch)
<1>1. IsFiniteSet(Batch) /\ PastLimit \in SUBSET Batch
  BY OutreachAssumption DEF PastLimit
<1> QED  BY <1>1, FS_Subset, FS_CardinalityType

\* A set grows by one element at most when one is added.
LEMMA OneMore ==
    ASSUME NEW S, NEW x, IsFiniteSet(S)
    PROVE  /\ IsFiniteSet(S \cup {x})
           /\ Cardinality(S \cup {x}) \in Nat
           /\ Cardinality(S \cup {x}) <= Cardinality(S) + 1
<1>1. Cardinality(S) \in Nat
  BY FS_CardinalityType
<1>2. IsFiniteSet(S \cup {x})
  BY FS_AddElement
<1>3. Cardinality(S \cup {x}) = IF x \in S THEN Cardinality(S) ELSE Cardinality(S) + 1
  BY FS_AddElement
<1> QED  BY <1>1, <1>2, <1>3

\* At the start nothing of the hour is used ...
LEMMA PlacesInit == Init => Places
<1> SUFFICES ASSUME Init
             PROVE  Places
  OBVIOUS
<1>1. PastLimit = {} /\ recent = {} /\ faults = 0
  BY DEF Init, PastLimit, Passed
<1>2. Cardinality(Batch) \in Nat /\ HourlyLimit \in Nat
  BY BatchesFinite, OutreachAssumption
<1> QED  BY <1>1, <1>2, FS_EmptySet DEF Places

\* Whatever lets batches leave and messages age keeps the limit.
LEMMA PlacesKept ==
    ASSUME Places, faults \in Nat, faults' \in Nat, faults' >= faults,
           PastLimit' \subseteq PastLimit, recent' \subseteq recent
    PROVE  Places'
<1>1. /\ IsFiniteSet(PastLimit') /\ IsFiniteSet(recent')
      /\ Cardinality(PastLimit') \in Nat /\ Cardinality(recent') \in Nat
      /\ Cardinality(PastLimit) \in Nat /\ Cardinality(recent) \in Nat
      /\ Cardinality(PastLimit') <= Cardinality(PastLimit)
      /\ Cardinality(recent') <= Cardinality(recent)
  BY BatchesFinite, FS_Subset, FS_CardinalityType DEF Places
<1>2. Cardinality(Batch) \in Nat /\ HourlyLimit \in Nat
  BY BatchesFinite, OutreachAssumption
<1> QED  BY <1>1, <1>2 DEF Places

\* ... and what is sent past the limit is matched by a batch past its check, or by a fault.
LEMMA PlacesStep == Typed /\ Typed' /\ Places /\ [Next]_vars => Places'
<1> SUFFICES ASSUME Typed, Typed', Places, [Next]_vars
             PROVE  Places'
  OBVIOUS
<1>0. /\ faults \in Nat /\ faults' \in Nat /\ PlaceTyped /\ MailTyped
      /\ Cardinality(Batch) \in Nat /\ HourlyLimit \in Nat
      /\ IsFiniteSet(PastLimit) /\ Cardinality(PastLimit) \in Nat
      /\ IsFiniteSet(recent) /\ Cardinality(recent) \in Nat
  BY BatchesFinite, OutreachAssumption, FS_CardinalityType DEF Typed, Places

<1>1. ASSUME NEW c \in Contact, HandleInbound(c)
      PROVE  Places'
  <2> PastLimit' \subseteq PastLimit /\ recent' \subseteq recent /\ faults' >= faults
    BY <1>0, <1>1 DEF HandleInbound, Fault, PastLimit, Passed, PlaceTyped, mailbox, batch
  <2> QED  BY <1>0, PlacesKept
<1>2. ASSUME NEW c \in Contact, UnsubContact(c)
      PROVE  Places'
  <2> PastLimit' \subseteq PastLimit /\ recent' \subseteq recent /\ faults' >= faults
    BY <1>0, <1>2 DEF UnsubContact, Fault, PastLimit, Passed, PlaceTyped, mailbox, batch
  <2> QED  BY <1>0, PlacesKept
<1>3. ASSUME NEW b \in Batch, BatchStart(b)
      PROVE  Places'
  <2> PastLimit' \subseteq PastLimit /\ recent' \subseteq recent /\ faults' >= faults
    BY <1>0, <1>3 DEF BatchStart, Goto, PastLimit, Passed, PlaceTyped, mailbox, batch
  <2> QED  BY <1>0, PlacesKept
<1>4. ASSUME NEW b \in Batch, BatchRequeue(b)
      PROVE  Places'
  <2> PastLimit' \subseteq PastLimit /\ recent' \subseteq recent /\ faults' >= faults
    BY <1>0, <1>4 DEF BatchRequeue, Goto, Fault, PastLimit, Passed, PlaceTyped, mailbox, batch
  <2> QED  BY <1>0, PlacesKept
<1>5. ASSUME NEW b \in Batch, BatchSelect(b)
      PROVE  Places'
  <2> PastLimit' \subseteq PastLimit /\ recent' \subseteq recent /\ faults' >= faults
    BY <1>0, <1>5 DEF BatchSelect, Goto, PastLimit, Passed, PlaceTyped, mailbox, batch
  <2> QED  BY <1>0, PlacesKept
<1>6. ASSUME NEW b \in Batch, BatchDrained(b)
      PROVE  Places'
  <2> PastLimit' \subseteq PastLimit /\ recent' \subseteq recent /\ faults' >= faults
    BY <1>0, <1>6 DEF BatchDrained, Goto, Forget, PastLimit, Passed, PlaceTyped, mailbox, batch
  <2> QED  BY <1>0, PlacesKept
<1>7. ASSUME NEW b \in Batch, NEW c \in Contact, BatchSkip(b, c)
      PROVE  Places'
  <2> PastLimit' \subseteq PastLimit /\ recent' \subseteq recent /\ faults' >= faults
    BY <1>0, <1>7 DEF BatchSkip, Fault, PastLimit, Passed, PlaceTyped, mailbox, batch
  <2> QED  BY <1>0, PlacesKept
<1>8. ASSUME NEW b \in Batch, NEW c \in Contact, BatchPick(b, c)
      PROVE  Places'
  <2> PastLimit' \subseteq PastLimit /\ recent' \subseteq recent /\ faults' >= faults
    BY <1>0, <1>8 DEF BatchPick, Goto, Fault, PastLimit, Passed, PlaceTyped, mailbox, batch
  <2> QED  BY <1>0, PlacesKept
<1>9. ASSUME NEW b \in Batch, BatchLimited(b)
      PROVE  Places'
  <2> PastLimit' \subseteq PastLimit /\ recent' \subseteq recent /\ faults' >= faults
    BY <1>0, <1>9 DEF BatchLimited, Goto, PastLimit, Passed, PlaceTyped, mailbox, batch
  <2> QED  BY <1>0, PlacesKept
<1>10. ASSUME NEW b \in Batch, BatchWalk(b)
      PROVE  Places'
  <2>1. recent' = recent /\ PastLimit' \subseteq PastLimit \cup {b}
    BY <1>0, <1>10 DEF BatchWalk, Goto, PastLimit, PlaceTyped, mailbox
  <2>2. /\ IsFiniteSet(PastLimit \cup {b})
        /\ Cardinality(PastLimit \cup {b}) <= Cardinality(PastLimit) + 1
        /\ Cardinality(PastLimit \cup {b}) \in Nat
    BY <1>0, OneMore
  <2>3. /\ Cardinality(PastLimit') \in Nat
        /\ Cardinality(PastLimit') <= Cardinality(PastLimit) + 1
        /\ Cardinality(PastLimit') <= Cardinality(Batch)
    <3>1. PastLimit' \in SUBSET Batch /\ IsFiniteSet(Batch)
      BY BatchesFinite DEF PastLimit
    <3>2. /\ Cardinality(PastLimit') <= Cardinality(PastLimit \cup {b})
          /\ Cardinality(PastLimit') <= Cardinality(Batch)
          /\ IsFiniteSet(PastLimit')
      BY <2>1, <2>2, <3>1, FS_Subset
    <3> QED  BY <1>0, <2>2, <3>2, FS_CardinalityType
  <2>4. CASE ~Limited /\ faults' = faults
    BY <1>0, <2>1, <2>3, <2>4 DEF Places, Limited
  <2>5. CASE faults' = faults + 1
    BY <1>0, <2>1, <2>3, <2>5 DEF Places
  <2> QED  BY <1>10, <2>4, <2>5 DEF BatchWalk, Fault
<1>11. ASSUME NEW b \in Batch, BatchReply(b)
      PROVE  Places'
  <2> PastLimit' \subseteq PastLimit /\ recent' \subseteq recent /\ faults' >= faults
    BY <1>0, <1>11 DEF BatchReply, Goto, Fault, PastLimit, Passed, PlaceTyped, mailbox, batch
  <2> QED  BY <1>0, PlacesKept
<1>12. ASSUME NEW b \in Batch, BatchClaim(b)
      PROVE  Places'
  <2> PastLimit' \subseteq PastLimit /\ recent' \subseteq recent /\ faults' >= faults
    BY <1>0, <1>12 DEF BatchClaim, Goto, Fault, PastLimit, Passed, PlaceTyped, mailbox, batch
  <2> QED  BY <1>0, PlacesKept
<1>13. ASSUME NEW b \in Batch, BatchRecord(b)
      PROVE  Places'
  <2> PastLimit' \subseteq PastLimit /\ recent' \subseteq recent /\ faults' >= faults
    BY <1>0, <1>13 DEF BatchRecord, Goto, PastLimit, Passed, PlaceTyped, mailbox, batch
  <2> QED  BY <1>0, PlacesKept
<1>14. ASSUME NEW b \in Batch, BatchRecordError(b)
      PROVE  Places'
  <2> PastLimit' \subseteq PastLimit /\ recent' \subseteq recent /\ faults' >= faults
    BY <1>0, <1>14 DEF BatchRecordError, Goto, Fault, PastLimit, Passed, PlaceTyped, mailbox,
       batch
  <2> QED  BY <1>0, PlacesKept
<1>15. ASSUME NEW b \in Batch, BatchSend(b)
      PROVE  Places'
  <2> PastLimit' \subseteq PastLimit /\ recent' \subseteq recent /\ faults' >= faults
    BY <1>0, <1>15 DEF BatchSend, Goto, PastLimit, Passed, PlaceTyped, mailbox, batch
  <2> QED  BY <1>0, PlacesKept
<1>16. ASSUME NEW b \in Batch, BatchBounce(b)
      PROVE  Places'
  <2> PastLimit' \subseteq PastLimit /\ recent' \subseteq recent /\ faults' >= faults
    BY <1>0, <1>16 DEF BatchBounce, Goto, PastLimit, Passed, PlaceTyped, mailbox, batch
  <2> QED  BY <1>0, PlacesKept
<1>17. ASSUME NEW b \in Batch, BatchSuppress(b)
      PROVE  Places'
  <2> PastLimit' \subseteq PastLimit /\ recent' \subseteq recent /\ faults' >= faults
    BY <1>0, <1>17 DEF BatchSuppress, Goto, PastLimit, Passed, PlaceTyped, mailbox, batch
  <2> QED  BY <1>0, PlacesKept
<1>18. ASSUME NEW b \in Batch, BatchFail(b)
      PROVE  Places'
  <2> PastLimit' \subseteq PastLimit /\ recent' \subseteq recent /\ faults' >= faults
    BY <1>0, <1>18 DEF BatchFail, Goto, PastLimit, Passed, PlaceTyped, mailbox, batch
  <2> QED  BY <1>0, PlacesKept
<1>19. ASSUME NEW b \in Batch, BatchMark(b)
      PROVE  Places'
  <2>1. /\ b \in PastLimit /\ PastLimit' = PastLimit \ {b}
        /\ faults' = faults
        /\ recent' = {} \/ recent' = recent \cup {<<cur[b], idx[b]>>}
    BY <1>0, <1>19 DEF BatchMark, Goto, PastLimit, Passed, PlaceTyped
  <2>2. Cardinality(PastLimit') = Cardinality(PastLimit) - 1
    BY <1>0, <2>1, FS_RemoveElement
  <2>3. /\ IsFiniteSet(recent')
        /\ Cardinality(recent') \in Nat
        /\ Cardinality(recent') <= Cardinality(recent) + 1
    <3>1. CASE recent' = {}
      BY <1>0, <3>1, FS_EmptySet
    <3>2. CASE recent' = recent \cup {<<cur[b], idx[b]>>}
      BY <1>0, <3>2, OneMore
    <3> QED  BY <2>1, <3>1, <3>2
  <2> QED  BY <1>0, <2>1, <2>2, <2>3 DEF Places
<1>20. ASSUME NEW b \in Batch, BatchAdvance(b)
      PROVE  Places'
  <2> PastLimit' \subseteq PastLimit /\ recent' \subseteq recent /\ faults' >= faults
    BY <1>0, <1>20 DEF BatchAdvance, Goto, PastLimit, Passed, PlaceTyped, mailbox, batch
  <2> QED  BY <1>0, PlacesKept
<1>21. ASSUME NEW b \in Batch, BatchWriteError(b)
      PROVE  Places'
  <2> PastLimit' \subseteq PastLimit /\ recent' \subseteq recent /\ faults' >= faults
    BY <1>0, <1>21 DEF BatchWriteError, Goto, Fault, PastLimit, Passed, PlaceTyped, mailbox,
       batch
  <2> QED  BY <1>0, PlacesKept
<1>22. ASSUME NEW b \in Batch, BatchCount(b)
      PROVE  Places'
  <2> PastLimit' \subseteq PastLimit /\ recent' \subseteq recent /\ faults' >= faults
    BY <1>0, <1>22 DEF BatchCount, Goto, Fault, PastLimit, Passed, PlaceTyped, mailbox, batch
  <2> QED  BY <1>0, PlacesKept
<1>23. ASSUME NEW b \in Batch, BatchComplete(b)
      PROVE  Places'
  <2> PastLimit' \subseteq PastLimit /\ recent' \subseteq recent /\ faults' >= faults
    BY <1>0, <1>23 DEF BatchComplete, Goto, PastLimit, Passed, PlaceTyped, mailbox, batch
  <2> QED  BY <1>0, PlacesKept
<1>24. ASSUME NEW b \in Batch, BatchLost(b)
      PROVE  Places'
  <2> PastLimit' \subseteq PastLimit /\ recent' \subseteq recent /\ faults' >= faults
    BY <1>0, <1>24 DEF BatchLost, Goto, Fault, Forget, PastLimit, Passed, PlaceTyped, mailbox,
       batch
  <2> QED  BY <1>0, PlacesKept
<1>25. ASSUME HourPasses
      PROVE  Places'
  <2> PastLimit' \subseteq PastLimit /\ recent' \subseteq recent /\ faults' >= faults
    BY <1>0, <1>25 DEF HourPasses, PastLimit, Passed, PlaceTyped, mailbox, batch
  <2> QED  BY <1>0, PlacesKept
<1>26. ASSUME NEW c \in Contact, UnsubSuppress(c)
      PROVE  Places'
  <2> PastLimit' \subseteq PastLimit /\ recent' \subseteq recent /\ faults' >= faults
    BY <1>0, <1>26 DEF UnsubSuppress, Fault, PastLimit, Passed, PlaceTyped, mailbox, batch
  <2> QED  BY <1>0, PlacesKept
<1>27. CASE UNCHANGED <<recent, pc, faults>>
  BY <1>0, <1>27 DEF Places, PastLimit
<1> QED
  BY <1>1, <1>2, <1>3, <1>4, <1>5, <1>6, <1>7, <1>8, <1>9, <1>10, <1>11, <1>12, <1>13, <1>14,
     <1>15, <1>16, <1>17, <1>18, <1>19, <1>20, <1>21, <1>22, <1>23, <1>24, <1>25, <1>26, <1>27
  DEF Next, UserStep, ContactStep, BatchStep, vars, camp, contact, address, mailbox,
      outside, batch, LaunchRead, LaunchUpdate, LaunchAdd, HandleCampaignPause, MoveCampaign,
      HandleCampaignCancel, OutreachTick, UnsubNotFound, DaysPass, Abandon

\* The batches pass the hourly limit by at most one message each, but one,
\* and one more for each failed count.
THEOREM Overshoot == Spec => []LimitOvershoot
<1> DEFINE Inv == Typed /\ Places
<1>1. Init => Inv
  BY TypedInit, PlacesInit
<1>2. Inv /\ [Next]_vars => Inv'
  BY TypedStep, PlacesStep
<1>3. Inv => LimitOvershoot
  <2> SUFFICES ASSUME Inv, HourlyLimit > 0
               PROVE  Cardinality(recent) <= HourlyLimit + Cardinality(Batch) - 1 + faults
    BY DEF LimitOvershoot
  <2> /\ Cardinality(PastLimit) \in Nat /\ Cardinality(recent) \in Nat
      /\ Cardinality(Batch) \in Nat /\ HourlyLimit \in Nat /\ faults \in Nat
    BY BatchesFinite, OutreachAssumption, FS_CardinalityType DEF Typed, Places
  <2> QED  BY DEF Places
<1> QED  BY <1>1, <1>2, <1>3, PTL DEF Spec
-----------------------------------------------------------------------------
(* Claims that are outlasted.                                              *)

Counted == overruns \in [Contact -> 0..MaxFaults]

\* Nothing but an old claim counts.
LEMMA OverrunsKept ==
    ASSUME [Next]_vars, \A c \in Contact : ~Abandon(c)
    PROVE  overruns' = overruns
<1>1. ASSUME NEW b \in Batch, BatchStep(b)
      PROVE  overruns' = overruns
  <2>1. ASSUME NEW c \in Contact, BatchSkip(b, c) \/ BatchPick(b, c)
        PROVE  overruns' = overruns
    BY <2>1 DEF BatchSkip, BatchPick
  <2>2. CASE \/ BatchRequeue(b) \/ BatchSelect(b) \/ BatchDrained(b) \/ BatchLimited(b)
             \/ BatchWalk(b) \/ BatchReply(b) \/ BatchClaim(b) \/ BatchRecord(b)
    BY <2>2 DEF BatchRequeue, BatchSelect, BatchDrained, BatchLimited, BatchWalk, BatchReply,
       BatchClaim, BatchRecord
  <2>3. CASE \/ BatchRecordError(b) \/ BatchSend(b) \/ BatchBounce(b) \/ BatchSuppress(b)
             \/ BatchFail(b) \/ BatchMark(b) \/ BatchAdvance(b) \/ BatchWriteError(b)
    BY <2>3 DEF BatchRecordError, BatchSend, BatchBounce, BatchSuppress, BatchFail, BatchMark,
       BatchAdvance, BatchWriteError
  <2>4. CASE BatchCount(b) \/ BatchComplete(b)
    BY <2>4 DEF BatchCount, BatchComplete
  <2> QED  BY <1>1, <2>1, <2>2, <2>3, <2>4 DEF BatchStep
<1>2. ASSUME NEW b \in Batch, BatchStart(b) \/ BatchLost(b)
      PROVE  overruns' = overruns
  BY <1>2 DEF BatchStart, BatchLost
<1>3. ASSUME NEW c \in Contact, ContactStep(c) \/ DaysPass(c)
      PROVE  overruns' = overruns
  BY <1>3 DEF ContactStep, HandleInbound, UnsubSuppress, UnsubContact, UnsubNotFound, DaysPass
<1>4. CASE UserStep \/ OutreachTick \/ HourPasses
  BY <1>4 DEF UserStep, LaunchRead, LaunchUpdate, LaunchAdd, HandleCampaignPause,
     HandleCampaignCancel, OutreachTick, MoveCampaign, HourPasses
<1>5. CASE UNCHANGED vars
  BY <1>5 DEF vars
<1> QED  BY <1>1, <1>2, <1>3, <1>4, <1>5 DEF Next

\* At the start none is outlasted ...
LEMMA CountedInit == Init => Counted
  BY OutreachAssumption DEF Init, Counted

\* ... and none is forgotten.
LEMMA CountedStep ==
    ASSUME Typed, Counted, [Next]_vars
    PROVE  /\ Counted'
           /\ \A x \in Contact : overruns'[x] \in Nat /\ overruns[x] \in Nat
           /\ \A x \in Contact : overruns[x] <= overruns'[x]
<1> MaxFaults \in Nat /\ faults \in Nat
  <2> MaxFaults \in Nat
    BY OutreachAssumption
  <2> QED  BY DEF Typed
<1>1. ASSUME NEW c \in Contact, Abandon(c), NEW x \in Contact
      PROVE  /\ overruns' \in [Contact -> 0..MaxFaults]
             /\ overruns[x] <= overruns'[x]
  <2>1. CASE overruns' = overruns
    BY <2>1 DEF Counted
  <2>2. CASE overruns[c] + faults < MaxFaults /\ overruns' = [overruns EXCEPT ![c] = @ + 1]
    BY <2>2 DEF Counted
  <2> QED  BY <1>1, <2>1, <2>2 DEF Abandon
<1>2. CASE overruns' = overruns
  BY <1>2 DEF Counted
<1>3. Counted' /\ \A x \in Contact : overruns[x] <= overruns'[x]
  <2>1. CASE \E c \in Contact : Abandon(c)
    BY <1>1, <2>1 DEF Counted
  <2>2. CASE ~ \E c \in Contact : Abandon(c)
    BY <1>2, <2>2, OverrunsKept DEF Counted
  <2> QED  BY <2>1, <2>2
<1> QED  BY <1>3 DEF Counted

\* A contact no claim of which has been outlasted so far never had one.
LEMMA InTimeBefore ==
    ASSUME Typed, Counted, [Next]_vars, NEW x \in Contact, InTime(x)'
    PROVE  InTime(x)
<1>1. overruns'[x] = 0
  BY DEF InTime
<1>2. overruns[x] <= overruns'[x] /\ overruns[x] \in Nat
  BY CountedStep
<1> QED  BY <1>1, <1>2 DEF InTime

-----------------------------------------------------------------------------
(* One sender at a time.                                                   *)

\* A contact no claim of which was outlasted has one sender, whose claim is
\* fresh and is not taken from it, and none once a reply is recorded.
OneSender ==
    /\ \A c \in Contact, a, b \in Batch :
          InTime(c) /\ Holds(a, c) /\ Holds(b, c) => a = b
    /\ \A c \in Contact, b \in Batch :
          InTime(c) /\ Holds(b, c) => status[c] \in {"sending"} \cup Done /\ ~abandoned[c]
    /\ \A c \in Contact : InTime(c) /\ repliedAt[c] => Final(c)

\* At the start no batch holds a contact ...
LEMMA OneSenderInit == Init => OneSender
  BY DEF Init, OneSender, Holds

\* ... and a claim gives a contact to one batch: only a batch that has died is taken for one.
LEMMA OneSenderStep == Typed /\ Counted /\ OneSender /\ [Next]_vars => OneSender'
<1> SUFFICES ASSUME Typed, Counted, OneSender, [Next]_vars
             PROVE  OneSender'
  OBVIOUS
<1>0. /\ ContactTyped /\ PlaceTyped /\ OneSender
      /\ \A x \in Contact : overruns'[x] = 0 => overruns[x] = 0
  <2>1. \A x \in Contact : overruns[x] <= overruns'[x] /\ overruns[x] \in Nat
    BY CountedStep
  <2> QED  BY <2>1 DEF Typed

<1>1. ASSUME NEW c \in Contact, LaunchAdd(c)
      PROVE  OneSender'
  BY <1>0, <1>1 DEF LaunchAdd, OneSender, Final, Holds, ContactTyped, PlaceTyped, Working,
     InTime, Open, Done, camp, contact, address, mailbox, outside, batch
<1>2. ASSUME NEW c \in Contact, HandleInbound(c)
      PROVE  OneSender'
  BY <1>0, <1>2 DEF HandleInbound, Fault, OneSender, Final, Holds, ContactTyped, PlaceTyped,
     Working, InTime, Open, Done, camp, contact, address, mailbox, outside, batch
<1>3. ASSUME NEW c \in Contact, UnsubContact(c)
      PROVE  OneSender'
  BY <1>0, <1>3 DEF UnsubContact, Fault, OneSender, Final, Holds, ContactTyped, PlaceTyped,
     Working, InTime, Open, Done, camp, contact, address, mailbox, outside, batch
<1>4. ASSUME NEW b \in Batch, BatchStart(b)
      PROVE  OneSender'
  BY <1>0, <1>4 DEF BatchStart, Goto, OneSender, Final, Holds, ContactTyped, PlaceTyped,
     Working, InTime, Open, Done, camp, contact, address, mailbox, outside, batch
<1>5. ASSUME NEW b \in Batch, BatchRequeue(b)
      PROVE  OneSender'
  BY <1>0, <1>5 DEF BatchRequeue, Goto, SetStatus, OneSender, Final, Holds, ContactTyped,
     PlaceTyped, Working, InTime, Open, Done, camp, contact, address, mailbox, outside, batch
<1>6. ASSUME NEW b \in Batch, BatchSelect(b)
      PROVE  OneSender'
  BY <1>0, <1>6 DEF BatchSelect, Goto, OneSender, Final, Holds, ContactTyped, PlaceTyped,
     Working, InTime, Open, Done, camp, contact, address, mailbox, outside, batch
<1>7. ASSUME NEW b \in Batch, BatchDrained(b)
      PROVE  OneSender'
  BY <1>0, <1>7 DEF BatchDrained, Forget, NoSnap, Goto, OneSender, Final, Holds,
     ContactTyped, PlaceTyped, Working, InTime, Open, Done, camp, contact, address, mailbox,
     outside, batch
<1>8. ASSUME NEW b \in Batch, NEW c \in Contact, BatchSkip(b, c)
      PROVE  OneSender'
  BY <1>0, <1>8 DEF BatchSkip, SetStatus, Fault, OneSender, Final, Holds, ContactTyped,
     PlaceTyped, Working, InTime, Open, Done, camp, contact, address, mailbox, outside, batch
<1>9. ASSUME NEW b \in Batch, NEW c \in Contact, BatchPick(b, c)
      PROVE  OneSender'
  BY <1>0, <1>9 DEF BatchPick, Goto, Fault, OneSender, Final, Holds, ContactTyped,
     PlaceTyped, Working, InTime, Open, Done, camp, contact, address, mailbox, outside, batch
<1>10. ASSUME NEW b \in Batch, BatchLimited(b)
      PROVE  OneSender'
  BY <1>0, <1>10 DEF BatchLimited, Goto, OneSender, Final, Holds, ContactTyped, PlaceTyped,
     Working, InTime, Open, Done, camp, contact, address, mailbox, outside, batch
<1>11. ASSUME NEW b \in Batch, BatchWalk(b)
      PROVE  OneSender'
  BY <1>0, <1>11 DEF BatchWalk, Goto, SetStatus, Fault, OneSender, Final, Holds,
     ContactTyped, PlaceTyped, Working, InTime, Open, Done, camp, contact, address, mailbox,
     outside, batch
<1>12. ASSUME NEW b \in Batch, BatchReply(b)
      PROVE  OneSender'
  BY <1>0, <1>12 DEF BatchReply, Goto, SetStatus, Fault, OneSender, Final, Holds,
     ContactTyped, PlaceTyped, Working, InTime, Open, Done, camp, contact, address, mailbox,
     outside, batch
<1>13. ASSUME NEW b \in Batch, BatchClaim(b)
      PROVE  OneSender'
  BY <1>0, <1>13 DEF BatchClaim, Goto, SetStatus, Fault, OneSender, Final, Holds,
     ContactTyped, PlaceTyped, Working, InTime, Open, Done, camp, contact, address, mailbox,
     outside, batch
<1>14. ASSUME NEW b \in Batch, BatchRecord(b)
      PROVE  OneSender'
  BY <1>0, <1>14 DEF BatchRecord, Goto, OneSender, Final, Holds, ContactTyped, PlaceTyped,
     Working, InTime, Open, Done, camp, contact, address, mailbox, outside, batch
<1>15. ASSUME NEW b \in Batch, BatchRecordError(b)
      PROVE  OneSender'
  BY <1>0, <1>15 DEF BatchRecordError, Goto, SetStatus, Fault, OneSender, Final, Holds,
     ContactTyped, PlaceTyped, Working, InTime, Open, Done, camp, contact, address, mailbox,
     outside, batch
<1>16. ASSUME NEW b \in Batch, BatchSend(b)
      PROVE  OneSender'
  BY <1>0, <1>16 DEF BatchSend, Deliver, Goto, OneSender, Final, Holds, ContactTyped,
     PlaceTyped, Working, InTime, Open, Done, camp, contact, address, mailbox, outside, batch
<1>17. ASSUME NEW b \in Batch, BatchBounce(b)
      PROVE  OneSender'
  BY <1>0, <1>17 DEF BatchBounce, Goto, SetStatus, OneSender, Final, Holds, ContactTyped,
     PlaceTyped, Working, InTime, Open, Done, camp, contact, address, mailbox, outside, batch
<1>18. ASSUME NEW b \in Batch, BatchSuppress(b)
      PROVE  OneSender'
  BY <1>0, <1>18 DEF BatchSuppress, Goto, OneSender, Final, Holds, ContactTyped, PlaceTyped,
     Working, InTime, Open, Done, camp, contact, address, mailbox, outside, batch
<1>19. ASSUME NEW b \in Batch, BatchFail(b)
      PROVE  OneSender'
  BY <1>0, <1>19 DEF BatchFail, Goto, SetStatus, OneSender, Final, Holds, ContactTyped,
     PlaceTyped, Working, InTime, Open, Done, camp, contact, address, mailbox, outside, batch
<1>20. ASSUME NEW b \in Batch, BatchMark(b)
      PROVE  OneSender'
  BY <1>0, <1>20 DEF BatchMark, Goto, OneSender, Final, Holds, ContactTyped, PlaceTyped,
     Working, InTime, Open, Done, camp, contact, address, mailbox, outside, batch
<1>21. ASSUME NEW b \in Batch, BatchAdvance(b)
      PROVE  OneSender'
  BY <1>0, <1>21 DEF BatchAdvance, Goto, SetStatus, OneSender, Final, Holds, ContactTyped,
     PlaceTyped, Working, InTime, Open, Done, camp, contact, address, mailbox, outside, batch
<1>22. ASSUME NEW b \in Batch, BatchWriteError(b)
      PROVE  OneSender'
  BY <1>0, <1>22 DEF BatchWriteError, Goto, Fault, OneSender, Final, Holds, ContactTyped,
     PlaceTyped, Working, InTime, Open, Done, camp, contact, address, mailbox, outside, batch
<1>23. ASSUME NEW b \in Batch, BatchCount(b)
      PROVE  OneSender'
  BY <1>0, <1>23 DEF BatchCount, Goto, OneSender, Final, Holds, ContactTyped, PlaceTyped,
     Working, InTime, Open, Done, camp, contact, address, mailbox, outside, batch
<1>24. ASSUME NEW b \in Batch, BatchComplete(b)
      PROVE  OneSender'
  BY <1>0, <1>24 DEF BatchComplete, Goto, OneSender, Final, Holds, ContactTyped, PlaceTyped,
     Working, InTime, Open, Done, camp, contact, address, mailbox, outside, batch
<1>25. ASSUME NEW b \in Batch, BatchLost(b)
      PROVE  OneSender'
  BY <1>0, <1>25 DEF BatchLost, Forget, NoSnap, Goto, Fault, OneSender, Final, Holds,
     ContactTyped, PlaceTyped, Working, InTime, Open, Done, camp, contact, address, mailbox,
     outside, batch
<1>26. ASSUME NEW c \in Contact, Abandon(c)
      PROVE  OneSender'
  <2>1. (\E b \in Batch : Holds(b, c)) => overruns'[c] # 0
    <3>1. overruns[c] \in Nat /\ overruns[c] + 1 # 0
      BY DEF Counted
    <3> QED  BY <1>26, <3>1 DEF Abandon, Counted
  <2> QED
    BY <1>0, <1>26, <2>1
    DEF Abandon, OneSender, Final, Holds, ContactTyped, PlaceTyped, InTime, batch
<1>27. CASE UNCHANGED <<status, repliedAt, abandoned, pc, cur>>
  BY <1>0, <1>27 DEF OneSender, Final, Holds, ContactTyped, PlaceTyped, Working, InTime,
     Open, Done
<1> QED
  BY <1>1, <1>2, <1>3, <1>4, <1>5, <1>6, <1>7, <1>8, <1>9, <1>10, <1>11, <1>12, <1>13, <1>14,
     <1>15, <1>16, <1>17, <1>18, <1>19, <1>20, <1>21, <1>22, <1>23, <1>24, <1>25, <1>26, <1>27
  DEF Next, UserStep, ContactStep, BatchStep, vars, camp, contact, address, mailbox,
      outside, batch, LaunchRead, LaunchUpdate, HandleCampaignPause, MoveCampaign,
      HandleCampaignCancel, OutreachTick, UnsubSuppress, UnsubNotFound, DaysPass, HourPasses

\* What is final stays final.
LEMMA FinalStays ==
    ASSUME Typed, [Next]_vars, NEW x \in Contact, Final(x)
    PROVE  Final(x)'
<1>0. ContactTyped /\ PlaceTyped /\ status[x] \in Done /\ \A b \in Batch : ~Holds(b, x)
  BY DEF Typed, Final

<1>1. ASSUME NEW c \in Contact, LaunchAdd(c)
      PROVE  Final(x)'
  BY <1>0, <1>1 DEF LaunchAdd, Final, Holds, ContactTyped, PlaceTyped, Working, Open, Done,
     camp, contact, address, mailbox, outside, batch
<1>2. ASSUME NEW c \in Contact, HandleInbound(c)
      PROVE  Final(x)'
  BY <1>0, <1>2 DEF HandleInbound, Fault, Final, Holds, ContactTyped, PlaceTyped, Working,
     Open, Done, camp, contact, address, mailbox, outside, batch
<1>3. ASSUME NEW c \in Contact, UnsubContact(c)
      PROVE  Final(x)'
  BY <1>0, <1>3 DEF UnsubContact, Fault, Final, Holds, ContactTyped, PlaceTyped, Working,
     Open, Done, camp, contact, address, mailbox, outside, batch
<1>4. ASSUME NEW b \in Batch, BatchStart(b)
      PROVE  Final(x)'
  BY <1>0, <1>4 DEF BatchStart, Goto, Final, Holds, ContactTyped, PlaceTyped, Working, Open,
     Done, camp, contact, address, mailbox, outside, batch
<1>5. ASSUME NEW b \in Batch, BatchRequeue(b)
      PROVE  Final(x)'
  BY <1>0, <1>5 DEF BatchRequeue, Goto, SetStatus, Final, Holds, ContactTyped, PlaceTyped,
     Working, Open, Done, camp, contact, address, mailbox, outside, batch
<1>6. ASSUME NEW b \in Batch, BatchSelect(b)
      PROVE  Final(x)'
  BY <1>0, <1>6 DEF BatchSelect, Goto, Final, Holds, ContactTyped, PlaceTyped, Working, Open,
     Done, camp, contact, address, mailbox, outside, batch
<1>7. ASSUME NEW b \in Batch, BatchDrained(b)
      PROVE  Final(x)'
  BY <1>0, <1>7 DEF BatchDrained, Forget, NoSnap, Goto, Final, Holds, ContactTyped,
     PlaceTyped, Working, Open, Done, camp, contact, address, mailbox, outside, batch
<1>8. ASSUME NEW b \in Batch, NEW c \in Contact, BatchSkip(b, c)
      PROVE  Final(x)'
  BY <1>0, <1>8 DEF BatchSkip, SetStatus, Fault, Final, Holds, ContactTyped, PlaceTyped,
     Working, Open, Done, camp, contact, address, mailbox, outside, batch
<1>9. ASSUME NEW b \in Batch, NEW c \in Contact, BatchPick(b, c)
      PROVE  Final(x)'
  BY <1>0, <1>9 DEF BatchPick, Goto, Fault, Final, Holds, ContactTyped, PlaceTyped, Working,
     Open, Done, camp, contact, address, mailbox, outside, batch
<1>10. ASSUME NEW b \in Batch, BatchLimited(b)
      PROVE  Final(x)'
  BY <1>0, <1>10 DEF BatchLimited, Goto, Final, Holds, ContactTyped, PlaceTyped, Working,
     Open, Done, camp, contact, address, mailbox, outside, batch
<1>11. ASSUME NEW b \in Batch, BatchWalk(b)
      PROVE  Final(x)'
  BY <1>0, <1>11 DEF BatchWalk, Goto, SetStatus, Fault, Final, Holds, ContactTyped,
     PlaceTyped, Working, Open, Done, camp, contact, address, mailbox, outside, batch
<1>12. ASSUME NEW b \in Batch, BatchReply(b)
      PROVE  Final(x)'
  BY <1>0, <1>12 DEF BatchReply, Goto, SetStatus, Fault, Final, Holds, ContactTyped,
     PlaceTyped, Working, Open, Done, camp, contact, address, mailbox, outside, batch
<1>13. ASSUME NEW b \in Batch, BatchClaim(b)
      PROVE  Final(x)'
  BY <1>0, <1>13 DEF BatchClaim, Goto, SetStatus, Fault, Final, Holds, ContactTyped,
     PlaceTyped, Working, Open, Done, camp, contact, address, mailbox, outside, batch
<1>14. ASSUME NEW b \in Batch, BatchRecord(b)
      PROVE  Final(x)'
  BY <1>0, <1>14 DEF BatchRecord, Goto, Final, Holds, ContactTyped, PlaceTyped, Working,
     Open, Done, camp, contact, address, mailbox, outside, batch
<1>15. ASSUME NEW b \in Batch, BatchRecordError(b)
      PROVE  Final(x)'
  BY <1>0, <1>15 DEF BatchRecordError, Goto, SetStatus, Fault, Final, Holds, ContactTyped,
     PlaceTyped, Working, Open, Done, camp, contact, address, mailbox, outside, batch
<1>16. ASSUME NEW b \in Batch, BatchSend(b)
      PROVE  Final(x)'
  BY <1>0, <1>16 DEF BatchSend, Deliver, Goto, Final, Holds, ContactTyped, PlaceTyped,
     Working, Open, Done, camp, contact, address, mailbox, outside, batch
<1>17. ASSUME NEW b \in Batch, BatchBounce(b)
      PROVE  Final(x)'
  BY <1>0, <1>17 DEF BatchBounce, Goto, SetStatus, Final, Holds, ContactTyped, PlaceTyped,
     Working, Open, Done, camp, contact, address, mailbox, outside, batch
<1>18. ASSUME NEW b \in Batch, BatchSuppress(b)
      PROVE  Final(x)'
  BY <1>0, <1>18 DEF BatchSuppress, Goto, Final, Holds, ContactTyped, PlaceTyped, Working,
     Open, Done, camp, contact, address, mailbox, outside, batch
<1>19. ASSUME NEW b \in Batch, BatchFail(b)
      PROVE  Final(x)'
  BY <1>0, <1>19 DEF BatchFail, Goto, SetStatus, Final, Holds, ContactTyped, PlaceTyped,
     Working, Open, Done, camp, contact, address, mailbox, outside, batch
<1>20. ASSUME NEW b \in Batch, BatchMark(b)
      PROVE  Final(x)'
  BY <1>0, <1>20 DEF BatchMark, Goto, Final, Holds, ContactTyped, PlaceTyped, Working, Open,
     Done, camp, contact, address, mailbox, outside, batch
<1>21. ASSUME NEW b \in Batch, BatchAdvance(b)
      PROVE  Final(x)'
  BY <1>0, <1>21 DEF BatchAdvance, Goto, SetStatus, Final, Holds, ContactTyped, PlaceTyped,
     Working, Open, Done, camp, contact, address, mailbox, outside, batch
<1>22. ASSUME NEW b \in Batch, BatchWriteError(b)
      PROVE  Final(x)'
  BY <1>0, <1>22 DEF BatchWriteError, Goto, Fault, Final, Holds, ContactTyped, PlaceTyped,
     Working, Open, Done, camp, contact, address, mailbox, outside, batch
<1>23. ASSUME NEW b \in Batch, BatchCount(b)
      PROVE  Final(x)'
  BY <1>0, <1>23 DEF BatchCount, Goto, Final, Holds, ContactTyped, PlaceTyped, Working, Open,
     Done, camp, contact, address, mailbox, outside, batch
<1>24. ASSUME NEW b \in Batch, BatchComplete(b)
      PROVE  Final(x)'
  BY <1>0, <1>24 DEF BatchComplete, Goto, Final, Holds, ContactTyped, PlaceTyped, Working,
     Open, Done, camp, contact, address, mailbox, outside, batch
<1>25. ASSUME NEW b \in Batch, BatchLost(b)
      PROVE  Final(x)'
  BY <1>0, <1>25 DEF BatchLost, Forget, NoSnap, Goto, Fault, Final, Holds, ContactTyped,
     PlaceTyped, Working, Open, Done, camp, contact, address, mailbox, outside, batch
<1>26. CASE UNCHANGED <<status, pc, cur>>
  BY <1>0, <1>26 DEF Final, Holds, ContactTyped, PlaceTyped, Working, Open, Done
<1> QED
  BY <1>1, <1>2, <1>3, <1>4, <1>5, <1>6, <1>7, <1>8, <1>9, <1>10, <1>11, <1>12, <1>13, <1>14,
     <1>15, <1>16, <1>17, <1>18, <1>19, <1>20, <1>21, <1>22, <1>23, <1>24, <1>25, <1>26
  DEF Next, UserStep, ContactStep, BatchStep, vars, camp, contact, address, mailbox,
      outside, batch, LaunchRead, LaunchUpdate, HandleCampaignPause, MoveCampaign,
      HandleCampaignCancel, OutreachTick, UnsubSuppress, UnsubNotFound, DaysPass, Abandon,
      HourPasses
-----------------------------------------------------------------------------
(* As many senders as claims were outlasted, and one more.                 *)

\* Who holds a contact, and whether one more may claim it without its claim
\* getting any older.
Holders(c) == {b \in Batch : Holds(b, c)}
Free(c)    == status[c] \in Open \/ (status[c] = "sending" /\ abandoned[c])

Seated == \A c \in Contact :
    /\ status[c] = "none" => Holders(c) = {}
    /\ Cardinality(Holders(c)) + (IF Free(c) THEN 1 ELSE 0) <= 1 + overruns[c]

\* What a step does to a contact: nobody joins, somebody claims it, somebody
\* lets go of it, a claim is outlasted, or nobody holds it.
SeatStep(x) ==
    /\ status'[x] = "none" => status[x] = "none" /\ Holders(x)' \subseteq Holders(x)
    /\ \/ Holders(x)' \subseteq Holders(x) /\ (Free(x)' => Free(x))
       \/ Free(x) /\ ~Free(x)' /\ \E b : Holders(x)' \subseteq Holders(x) \cup {b}
       \/ \E b \in Holders(x) : Holders(x)' \subseteq Holders(x) \ {b}
       \/ Holders(x)' \subseteq Holders(x) /\ overruns'[x] = overruns[x] + 1
       \/ Holders(x)' = {}

\* Batches can be counted.
LEMMA BatchSets ==
    ASSUME NEW S \in SUBSET Batch
    PROVE  IsFiniteSet(S) /\ Cardinality(S) \in Nat
  BY OutreachAssumption, FS_Subset, FS_CardinalityType

\* A set with at most one new element, one that loses an element, and one with
\* no new element.
LEMMA Growth ==
    ASSUME NEW S, NEW T, NEW k, IsFiniteSet(S)
    PROVE  /\ T \subseteq S \cup {k} => Cardinality(T) <= Cardinality(S) + 1
           /\ T \subseteq S \ {k} /\ k \in S => Cardinality(T) <= Cardinality(S) - 1
           /\ T \subseteq S => Cardinality(T) <= Cardinality(S)
<1>1. Cardinality(S) \in Nat
  BY FS_CardinalityType
<1>2. ASSUME T \subseteq S \cup {k}
      PROVE  Cardinality(T) <= Cardinality(S) + 1
  <2>1. /\ IsFiniteSet(S \cup {k}) /\ Cardinality(S \cup {k}) \in Nat
        /\ Cardinality(S \cup {k}) <= Cardinality(S) + 1
    BY OneMore
  <2>2. Cardinality(T) <= Cardinality(S \cup {k}) /\ IsFiniteSet(T)
    BY <1>2, <2>1, FS_Subset
  <2>3. Cardinality(T) \in Nat
    BY <2>2, FS_CardinalityType
  <2> QED  BY <1>1, <2>1, <2>2, <2>3
<1>3. ASSUME T \subseteq S \ {k}, k \in S
      PROVE  Cardinality(T) <= Cardinality(S) - 1
  <2>1. IsFiniteSet(S \ {k}) /\ Cardinality(S \ {k}) = Cardinality(S) - 1
    BY <1>3, FS_RemoveElement
  <2>2. Cardinality(T) <= Cardinality(S \ {k})
    BY <1>3, <2>1, FS_Subset
  <2> QED  BY <2>1, <2>2
<1>4. T \subseteq S => Cardinality(T) <= Cardinality(S)
  BY FS_Subset
<1> QED  BY <1>2, <1>3, <1>4

\* At the start nobody holds anything ...
LEMMA SeatedInit == Init => Seated
<1> SUFFICES ASSUME Init, NEW c \in Contact
             PROVE  /\ status[c] = "none" => Holders(c) = {}
                    /\ Cardinality(Holders(c)) + (IF Free(c) THEN 1 ELSE 0) <= 1 + overruns[c]
  BY DEF Seated
<1>1. Holders(c) = {} /\ ~Free(c) /\ overruns[c] = 0
  BY DEF Init, Holders, Holds, Free, Open
<1> QED  BY <1>1, FS_EmptySet

\* ... a step is one of those above ...
LEMMA SeatKinds ==
    ASSUME Typed, Counted, Seated, [Next]_vars, NEW x \in Contact
    PROVE  SeatStep(x)
<1>0. ContactTyped /\ PlaceTyped /\ CopyTyped /\ overruns \in [Contact -> 0..MaxFaults]
  BY DEF Typed, Counted
<1>1. CASE /\ Holders(x)' \subseteq Holders(x) /\ abandoned'[x] = abandoned[x]
           /\ status'[x] = status[x] \/ status'[x] \in Done
  BY <1>1 DEF SeatStep, Free, Open, Done
<1>2. ASSUME NEW c \in Contact, Abandon(c)
      PROVE  SeatStep(x)
  <2>1. Holders(x)' = Holders(x) /\ status' = status
    BY <1>2 DEF Abandon, Holders, Holds, batch
  <2>2. CASE x # c
    BY <1>0, <1>1, <1>2, <2>1, <2>2 DEF Abandon, ContactTyped
  <2>3. CASE x = c /\ overruns'[x] = overruns[x] + 1
    BY <2>1, <2>3 DEF SeatStep
  <2>4. CASE x = c /\ Holders(c) = {}
    BY <2>1, <2>4 DEF SeatStep
  <2> QED  BY <1>0, <1>2, <2>2, <2>3, <2>4 DEF Abandon, Holders
<1>3. ASSUME NEW c \in Contact, LaunchAdd(c)
      PROVE  SeatStep(x)
  <2>1. Holders(x)' = Holders(x) /\ abandoned' = abandoned
    BY <1>3 DEF LaunchAdd, Holders, Holds, batch
  <2>2. CASE x # c
    BY <1>0, <1>1, <1>3, <2>1, <2>2 DEF LaunchAdd, ContactTyped
  <2>3. CASE x = c
    BY <2>1, <2>3, <1>3 DEF LaunchAdd, Seated, SeatStep
  <2> QED  BY <2>2, <2>3
<1>4. ASSUME NEW b \in Batch, BatchClaim(b)
      PROVE  SeatStep(x)
  <2>1. cur' = cur /\ cur[b] \in Contact /\ \A e \in Batch \ {b} : pc'[e] = pc[e]
    BY <1>0, <1>4 DEF BatchClaim, Goto, PlaceTyped, Working
  <2>2. CASE x = cur[b] /\ status[x] \in Open
    <3>1. status'[x] = "sending" /\ ~abandoned'[x]
      BY <1>0, <1>4, <2>1, <2>2 DEF BatchClaim, SetStatus, ContactTyped
    <3>2. Holders(x)' \subseteq Holders(x) \cup {b}
      BY <2>1 DEF Holders, Holds
    <3>3. Free(x) /\ ~Free(x)'
      BY <2>2, <3>1 DEF Free, Open
    <3>4. status'[x] # "none"
      BY <3>1
    <3> QED  BY <3>2, <3>3, <3>4 DEF SeatStep
  <2>3. CASE ~(x = cur[b] /\ status[x] \in Open)
    <3>1. Holders(x)' \subseteq Holders(x)
      BY <1>0, <1>4, <2>1, <2>3 DEF BatchClaim, Goto, Holders, Holds, PlaceTyped
    <3>2. status'[x] = status[x] /\ abandoned'[x] = abandoned[x]
      BY <1>0, <1>4, <2>1, <2>3 DEF BatchClaim, SetStatus, ContactTyped
    <3> QED  BY <1>1, <3>1, <3>2
  <2> QED  BY <2>2, <2>3
<1>5. ASSUME NEW b \in Batch, BatchAdvance(b)
      PROVE  SeatStep(x)
  <2>1. /\ cur' = cur /\ cur[b] \in Contact /\ pc[b] = "advance" /\ abandoned' = abandoned
        /\ pc' = [pc EXCEPT ![b] = "pick"]
    BY <1>0, <1>5 DEF BatchAdvance, Goto, PlaceTyped, Working
  <2>2. CASE x = cur[b]
    <3>1. b \in Holders(x) /\ Holders(x)' \subseteq Holders(x) \ {b}
      BY <1>0, <2>1, <2>2 DEF Holders, Holds, PlaceTyped
    <3>2. status'[x] # "none"
      BY <1>0, <1>5, <2>1, <2>2 DEF BatchAdvance, SetStatus, ContactTyped
    <3> QED  BY <3>1, <3>2 DEF SeatStep
  <2>3. CASE x # cur[b]
    <3>1. status'[x] = status[x]
      BY <1>0, <1>5, <2>1, <2>3 DEF BatchAdvance, SetStatus, ContactTyped
    <3>2. Holders(x)' \subseteq Holders(x)
      BY <1>0, <2>1 DEF Holders, Holds, PlaceTyped
    <3> QED  BY <1>1, <2>1, <3>1, <3>2
  <2> QED  BY <2>2, <2>3
<1>6. ASSUME NEW b \in Batch, BatchRequeue(b)
      PROVE  SeatStep(x)
  <2>1. Holders(x)' \subseteq Holders(x)
    BY <1>0, <1>6 DEF BatchRequeue, Goto, Holders, Holds, PlaceTyped
  <2>2. /\ Free(x)' => Free(x)
        /\ status'[x] = "none" => status[x] = "none"
    BY <1>0, <1>6 DEF BatchRequeue, Free, Open, ContactTyped
  <2> QED  BY <2>1, <2>2 DEF SeatStep
<1>7. ASSUME NEW b \in Batch,
             \/ BatchStart(b) \/ BatchSelect(b) \/ BatchDrained(b) \/ BatchLimited(b)
             \/ BatchRecord(b) \/ BatchSend(b) \/ BatchSuppress(b) \/ BatchMark(b)
             \/ BatchWriteError(b) \/ BatchCount(b) \/ BatchComplete(b) \/ BatchLost(b)
             \/ \E c \in Contact : BatchPick(b, c)
      PROVE  /\ Holders(x)' \subseteq Holders(x) /\ abandoned'[x] = abandoned[x]
             /\ status'[x] = status[x]
  <2>1. status' = status /\ abandoned' = abandoned
    BY <1>7 DEF BatchStart, BatchSelect, BatchDrained, BatchLimited, BatchRecord, BatchSend,
       BatchSuppress, BatchMark, BatchWriteError, BatchCount, BatchComplete, BatchLost, BatchPick,
       contact
  <2>2. Holders(x)' \subseteq Holders(x)
    <3>1. CASE BatchStart(b) \/ BatchSelect(b) \/ BatchDrained(b) \/ BatchLimited(b)
               \/ BatchRecord(b) \/ BatchSend(b)
      BY <1>0, <3>1 DEF BatchStart, BatchSelect, BatchDrained, BatchLimited, BatchRecord,
         BatchSend, Goto, Forget, Holders, Holds, PlaceTyped, batch
    <3>2. CASE BatchSuppress(b) \/ BatchMark(b) \/ BatchWriteError(b) \/ BatchCount(b)
               \/ BatchComplete(b) \/ BatchLost(b) \/ \E c \in Contact : BatchPick(b, c)
      BY <1>0, <3>2 DEF BatchSuppress, BatchMark, BatchWriteError, BatchCount, BatchComplete,
         BatchLost, BatchPick, Goto, Forget, Holders, Holds, PlaceTyped, batch
    <3> QED  BY <1>7, <3>1, <3>2
  <2> QED  BY <2>1, <2>2
<1>8. ASSUME NEW b \in Batch,
             \/ BatchWalk(b) \/ BatchReply(b) \/ BatchRecordError(b) \/ BatchBounce(b)
             \/ BatchFail(b) \/ \E c \in Contact : BatchSkip(b, c)
      PROVE  /\ Holders(x)' \subseteq Holders(x) /\ abandoned'[x] = abandoned[x]
             /\ status'[x] = status[x] \/ status'[x] \in Done
  <2>1. abandoned' = abandoned /\ cur' = cur
    BY <1>8 DEF BatchWalk, BatchReply, BatchRecordError, BatchBounce, BatchFail, BatchSkip
  <2>2. status'[x] = status[x] \/ status'[x] \in Done
    BY <1>0, <1>8 DEF BatchWalk, BatchReply, BatchRecordError, BatchBounce, BatchFail, BatchSkip,
       SetStatus, ContactTyped, Done
  <2>3. Holders(x)' \subseteq Holders(x)
    BY <1>0, <1>8, <2>1 DEF BatchWalk, BatchReply, BatchRecordError, BatchBounce, BatchFail,
       BatchSkip, Goto, Holders, Holds, PlaceTyped
  <2> QED  BY <2>1, <2>2, <2>3
<1>9. ASSUME NEW c \in Contact, ContactStep(c) \/ DaysPass(c)
      PROVE  /\ Holders(x)' \subseteq Holders(x) /\ abandoned'[x] = abandoned[x]
             /\ status'[x] = status[x] \/ status'[x] \in Done
  <2>1. UNCHANGED <<abandoned, pc, cur>>
    BY <1>9 DEF ContactStep, HandleInbound, UnsubSuppress, UnsubContact, UnsubNotFound, DaysPass,
       contact, batch
  <2>2. status'[x] = status[x] \/ status'[x] \in Done
    BY <1>0, <1>9 DEF ContactStep, HandleInbound, UnsubSuppress, UnsubContact, UnsubNotFound,
       DaysPass, ContactTyped, contact, Done
  <2> QED  BY <2>1, <2>2 DEF Holders, Holds
<1>10. CASE UNCHANGED <<status, abandoned, pc, cur>>
  BY <1>1, <1>10 DEF Holders, Holds
<1>11. ASSUME NEW b \in Batch, BatchStart(b) \/ BatchStep(b) \/ BatchLost(b)
       PROVE  SeatStep(x)
  BY <1>1, <1>4, <1>5, <1>6, <1>7, <1>8, <1>11 DEF BatchStep
<1>12. CASE UserStep \/ OutreachTick \/ HourPasses \/ UNCHANGED vars
  BY <1>3, <1>10, <1>12
  DEF UserStep, LaunchRead, LaunchUpdate, HandleCampaignPause, HandleCampaignCancel, OutreachTick,
      MoveCampaign, HourPasses, vars, contact, batch
<1> QED  BY <1>1, <1>2, <1>9, <1>11, <1>12 DEF Next

\* ... and none of them seats one too many.
LEMMA SeatedStep == Typed /\ Counted /\ Seated /\ [Next]_vars => Seated'
<1> SUFFICES ASSUME Typed, Counted, Seated, [Next]_vars, NEW x \in Contact
             PROVE  /\ status'[x] = "none" => Holders(x)' = {}
                    /\ Cardinality(Holders(x)') + (IF Free(x)' THEN 1 ELSE 0)
                       <= 1 + overruns'[x]
  BY DEF Seated
<1>1. SeatStep(x)
  BY SeatKinds
<1>2. /\ overruns[x] \in Nat /\ overruns'[x] \in Nat /\ overruns[x] <= overruns'[x]
      /\ status[x] = "none" => Holders(x) = {}
      /\ Cardinality(Holders(x)) + (IF Free(x) THEN 1 ELSE 0) <= 1 + overruns[x]
  BY CountedStep DEF Seated
<1>3. /\ IsFiniteSet(Holders(x)) /\ Cardinality(Holders(x)) \in Nat
      /\ Cardinality(Holders(x)') \in Nat
  <2>1. Holders(x) \in SUBSET Batch /\ Holders(x)' \in SUBSET Batch
    BY DEF Holders
  <2> QED  BY <2>1, BatchSets
<1>4. status'[x] = "none" => Holders(x)' = {}
  BY <1>1, <1>2 DEF SeatStep
<1>5. CASE Holders(x)' \subseteq Holders(x) /\ (Free(x)' => Free(x))
  <2>1. Cardinality(Holders(x)') <= Cardinality(Holders(x))
    BY <1>3, <1>5, Growth
  <2> QED  BY <1>2, <1>3, <1>4, <1>5, <2>1
<1>6. CASE Free(x) /\ ~Free(x)' /\ \E b : Holders(x)' \subseteq Holders(x) \cup {b}
  <2>1. Cardinality(Holders(x)') <= Cardinality(Holders(x)) + 1
    BY <1>3, <1>6, Growth
  <2> QED  BY <1>2, <1>3, <1>4, <1>6, <2>1
<1>7. CASE \E b \in Holders(x) : Holders(x)' \subseteq Holders(x) \ {b}
  <2>1. Cardinality(Holders(x)') <= Cardinality(Holders(x)) - 1
    BY <1>3, <1>7, Growth
  <2> QED  BY <1>2, <1>3, <1>4, <2>1
<1>8. CASE Holders(x)' \subseteq Holders(x) /\ overruns'[x] = overruns[x] + 1
  <2>1. Cardinality(Holders(x)') <= Cardinality(Holders(x))
    BY <1>3, <1>8, Growth
  <2> QED  BY <1>2, <1>3, <1>4, <1>8, <2>1
<1>9. CASE Holders(x)' = {}
  <2>1. Cardinality(Holders(x)') = 0
    BY <1>9, FS_EmptySet
  <2>2. \A n \in Nat : 0 + 1 <= 1 + n /\ 0 + 0 <= 1 + n
    OBVIOUS
  <2> QED  BY <1>2, <1>4, <2>1, <2>2
<1> QED  BY <1>1, <1>5, <1>6, <1>7, <1>8, <1>9 DEF SeatStep

-----------------------------------------------------------------------------
(* No mail twice.                                                          *)

\* The batches about to overwrite a message that bounced, what keeps a
\* message from being sent again, and what that leaves of the failures: each
\* failure opens one message, and a batch that lost its bounce may yet.
Bouncing(c, i) == {b \in Batch : pc[b] = "suppress" /\ cur[b] = c /\ idx[b] = i}

Closed(c, i) ==
    \/ message[c][i] = "sent"
    \/ \E b \in Batch : pc[b] \in {"mark", "fail"} /\ cur[b] = c /\ idx[b] = i

Tally(c, i) ==
    /\ delivered[c][i] <= 1 + faults
    /\ \/ Final(c)
       \/ delivered[c][i] + Cardinality(Bouncing(c, i)) <= faults
       \/ /\ delivered[c][i] + Cardinality(Bouncing(c, i)) <= 1 + faults
          /\ Closed(c, i)

Tallied == \A c \in Contact, i \in StepNo : InTime(c) => Tally(c, i)

\* A message on its way is not marked sent.
Unsent ==
    \A b \in Batch : pc[b] = "smtp" /\ InTime(cur[b]) => message[cur[b]][idx[b]] # "sent"

\* The faults so far are a number.
LEMMA FaultsFact == \A f \in 0..MaxFaults : f \in Nat
  BY OutreachAssumption

\* The batches about to record a bounce can be counted ...
LEMMA BouncingFinite ==
    ASSUME NEW c, NEW i
    PROVE  IsFiniteSet(Bouncing(c, i)) /\ Cardinality(Bouncing(c, i)) \in Nat
<1>1. IsFiniteSet(Batch) /\ Bouncing(c, i) \in SUBSET Batch
  BY OutreachAssumption DEF Bouncing
<1> QED  BY <1>1, FS_Subset, FS_CardinalityType

\* ... and so can those after a step.
LEMMA BouncingNextFinite ==
    ASSUME NEW c, NEW i
    PROVE  IsFiniteSet(Bouncing(c, i)') /\ Cardinality(Bouncing(c, i)') \in Nat
<1>1. IsFiniteSet(Batch) /\ Bouncing(c, i)' \in SUBSET Batch
  BY OutreachAssumption DEF Bouncing
<1> QED  BY <1>1, FS_Subset, FS_CardinalityType

\* Before the first mail the tally is even ...
LEMMA TalliedInit == Init => Tallied /\ Unsent
<1> SUFFICES ASSUME Init
             PROVE  Tallied /\ Unsent
  OBVIOUS
<1>1. Unsent
  BY DEF Init, Unsent
<1>2. ASSUME NEW c \in Contact, NEW i \in StepNo
      PROVE  Tally(c, i)
  <2>1. Bouncing(c, i) = {} /\ delivered[c][i] = 0 /\ faults = 0
    BY DEF Init, Bouncing
  <2> QED  BY <2>1, FS_EmptySet DEF Tally
<1> QED  BY <1>1, <1>2 DEF Tallied

\* Whatever sends nothing, reopens nothing and starts no overwriting keeps
\* the tally; after a failure a message may as well be open.
LEMMA TallyKept ==
    ASSUME NEW c \in Contact, NEW i \in StepNo, Typed, Typed', Tally(c, i),
           delivered'[c][i] = delivered[c][i],
           Bouncing(c, i)' \subseteq Bouncing(c, i),
           faults' >= faults,
           Final(c) => Final(c)',
           faults' > faults \/ Final(c)' \/ (Closed(c, i) => Closed(c, i)')
    PROVE  Tally(c, i)'
<1>1. faults \in Nat /\ faults' \in Nat
  BY FaultsFact DEF Typed
<1>2. delivered[c][i] \in Nat
  BY DEF Typed, OutsideTyped
<1>3. Cardinality(Bouncing(c, i)') <= Cardinality(Bouncing(c, i))
  BY BouncingFinite, FS_Subset
<1>4. Cardinality(Bouncing(c, i)) \in Nat /\ Cardinality(Bouncing(c, i)') \in Nat
  BY BouncingFinite, BouncingNextFinite
<1> QED  BY <1>1, <1>2, <1>3, <1>4 DEF Tally

\* A message on its way stays unmarked, whatever the other batches do.
LEMMA UnsentStep == Typed /\ Counted /\ OneSender /\ Unsent /\ [Next]_vars => Unsent'
<1> SUFFICES ASSUME Typed, Counted, OneSender, Unsent, [Next]_vars
             PROVE  Unsent'
  OBVIOUS
<1>0. /\ MailTyped /\ PlaceTyped /\ CopyTyped /\ OneSender /\ Unsent
      /\ \A x \in Contact : overruns'[x] = 0 => overruns[x] = 0
  <2>1. \A x \in Contact : overruns[x] <= overruns'[x] /\ overruns[x] \in Nat
    BY CountedStep
  <2> QED  BY <2>1 DEF Typed

<1>1. ASSUME NEW b \in Batch, BatchStart(b)
      PROVE  Unsent'
  BY <1>0, <1>1 DEF BatchStart, Goto, Unsent, OneSender, InTime, Holds, MailTyped, PlaceTyped,
     CopyTyped, Working, camp, contact, address, mailbox, outside, batch
<1>2. ASSUME NEW b \in Batch, BatchRequeue(b)
      PROVE  Unsent'
  BY <1>0, <1>2 DEF BatchRequeue, Goto, Fault, SetStatus, Unsent, OneSender, InTime, Holds, MailTyped,
     PlaceTyped, CopyTyped, Working, camp, contact, address, mailbox, outside, batch
<1>3. ASSUME NEW b \in Batch, BatchSelect(b)
      PROVE  Unsent'
  BY <1>0, <1>3 DEF BatchSelect, Goto, Unsent, OneSender, InTime, Holds, MailTyped, PlaceTyped,
     CopyTyped, Working, camp, contact, address, mailbox, outside, batch
<1>4. ASSUME NEW b \in Batch, BatchDrained(b)
      PROVE  Unsent'
  BY <1>0, <1>4 DEF BatchDrained, Forget, NoSnap, Goto, Unsent, OneSender, InTime, Holds, MailTyped,
     PlaceTyped, CopyTyped, Working, camp, contact, address, mailbox, outside, batch
<1>5. ASSUME NEW b \in Batch, NEW c \in Contact, BatchPick(b, c)
      PROVE  Unsent'
  BY <1>0, <1>5 DEF BatchPick, Goto, Fault, Unsent, OneSender, InTime, Holds, MailTyped, PlaceTyped,
     CopyTyped, Working, camp, contact, address, mailbox, outside, batch
<1>6. ASSUME NEW b \in Batch, BatchLimited(b)
      PROVE  Unsent'
  BY <1>0, <1>6 DEF BatchLimited, Goto, Unsent, OneSender, InTime, Holds, MailTyped, PlaceTyped,
     CopyTyped, Working, camp, contact, address, mailbox, outside, batch
<1>7. ASSUME NEW b \in Batch, BatchWalk(b)
      PROVE  Unsent'
  BY <1>0, <1>7 DEF BatchWalk, Goto, SetStatus, Fault, Unsent, OneSender, InTime, Holds, MailTyped,
     PlaceTyped, CopyTyped, Working, camp, contact, address, mailbox, outside, batch
<1>8. ASSUME NEW b \in Batch, BatchReply(b)
      PROVE  Unsent'
  BY <1>0, <1>8 DEF BatchReply, Goto, SetStatus, Fault, Unsent, OneSender, InTime, Holds, MailTyped,
     PlaceTyped, CopyTyped, Working, camp, contact, address, mailbox, outside, batch
<1>9. ASSUME NEW b \in Batch, BatchClaim(b)
      PROVE  Unsent'
  BY <1>0, <1>9 DEF BatchClaim, Goto, SetStatus, Fault, Unsent, OneSender, InTime, Holds, MailTyped,
     PlaceTyped, CopyTyped, Working, camp, contact, address, mailbox, outside, batch
<1>10. ASSUME NEW b \in Batch, BatchRecord(b)
      PROVE  Unsent'
  BY <1>0, <1>10 DEF BatchRecord, Goto, Unsent, OneSender, InTime, Holds, MailTyped, PlaceTyped,
     CopyTyped, Working, camp, contact, address, mailbox, outside, batch
<1>11. ASSUME NEW b \in Batch, BatchRecordError(b)
      PROVE  Unsent'
  BY <1>0, <1>11 DEF BatchRecordError, Goto, SetStatus, Fault, Unsent, OneSender, InTime, Holds,
     MailTyped, PlaceTyped, CopyTyped, Working, camp, contact, address, mailbox, outside, batch
<1>12. ASSUME NEW b \in Batch, BatchSend(b)
      PROVE  Unsent'
  BY <1>0, <1>12 DEF BatchSend, Deliver, Goto, Unsent, OneSender, InTime, Holds, MailTyped,
     PlaceTyped, CopyTyped, Working, camp, contact, address, mailbox, outside, batch
<1>13. ASSUME NEW b \in Batch, BatchBounce(b)
      PROVE  Unsent'
  BY <1>0, <1>13 DEF BatchBounce, Goto, SetStatus, Unsent, OneSender, InTime, Holds, MailTyped,
     PlaceTyped, CopyTyped, Working, camp, contact, address, mailbox, outside, batch
<1>14. ASSUME NEW b \in Batch, BatchSuppress(b)
      PROVE  Unsent'
  BY <1>0, <1>14 DEF BatchSuppress, Goto, Unsent, OneSender, InTime, Holds, MailTyped, PlaceTyped,
     CopyTyped, Working, camp, contact, address, mailbox, outside, batch
<1>15. ASSUME NEW b \in Batch, BatchFail(b)
      PROVE  Unsent'
  BY <1>0, <1>15 DEF BatchFail, Goto, SetStatus, Unsent, OneSender, InTime, Holds, MailTyped,
     PlaceTyped, CopyTyped, Working, camp, contact, address, mailbox, outside, batch
<1>16. ASSUME NEW b \in Batch, BatchMark(b)
      PROVE  Unsent'
  BY <1>0, <1>16 DEF BatchMark, Goto, Unsent, OneSender, InTime, Holds, MailTyped, PlaceTyped,
     CopyTyped, Working, camp, contact, address, mailbox, outside, batch
<1>17. ASSUME NEW b \in Batch, BatchAdvance(b)
      PROVE  Unsent'
  BY <1>0, <1>17 DEF BatchAdvance, Goto, SetStatus, Unsent, OneSender, InTime, Holds, MailTyped,
     PlaceTyped, CopyTyped, Working, camp, contact, address, mailbox, outside, batch
<1>18. ASSUME NEW b \in Batch, BatchWriteError(b)
      PROVE  Unsent'
  BY <1>0, <1>18 DEF BatchWriteError, Goto, Fault, Unsent, OneSender, InTime, Holds, MailTyped,
     PlaceTyped, CopyTyped, Working, camp, contact, address, mailbox, outside, batch
<1>19. ASSUME NEW b \in Batch, BatchCount(b)
      PROVE  Unsent'
  BY <1>0, <1>19 DEF BatchCount, Goto, Fault, Unsent, OneSender, InTime, Holds, MailTyped, PlaceTyped,
     CopyTyped, Working, camp, contact, address, mailbox, outside, batch
<1>20. ASSUME NEW b \in Batch, BatchComplete(b)
      PROVE  Unsent'
  BY <1>0, <1>20 DEF BatchComplete, Goto, Unsent, OneSender, InTime, Holds, MailTyped, PlaceTyped,
     CopyTyped, Working, camp, contact, address, mailbox, outside, batch
<1>21. ASSUME NEW b \in Batch, BatchLost(b)
      PROVE  Unsent'
  BY <1>0, <1>21 DEF BatchLost, Forget, NoSnap, Goto, Fault, Unsent, OneSender, InTime, Holds,
     MailTyped, PlaceTyped, CopyTyped, Working, camp, contact, address, mailbox, outside, batch
<1>22. CASE UNCHANGED <<message, pc, cur, idx>>
  BY <1>0, <1>22 DEF Unsent, OneSender, InTime, Holds, MailTyped, PlaceTyped, CopyTyped, Working
<1> QED
  BY <1>1, <1>2, <1>3, <1>4, <1>5, <1>6, <1>7, <1>8, <1>9, <1>10, <1>11, <1>12, <1>13, <1>14,
     <1>15, <1>16, <1>17, <1>18, <1>19, <1>20, <1>21, <1>22
  DEF Next, UserStep, ContactStep, BatchStep, vars, camp, contact, address, mailbox,
      outside, batch, LaunchRead, LaunchUpdate, LaunchAdd, HandleCampaignPause, MoveCampaign,
      HandleCampaignCancel, OutreachTick, HandleInbound, UnsubSuppress, UnsubContact,
      UnsubNotFound, BatchSkip, DaysPass, Abandon, HourPasses

\* The relay's copy of a message is counted, and of no other.
LEMMA Delivery ==
    ASSUME Typed, NEW a \in Contact, NEW k \in StepNo, Deliver(a, k),
           NEW x \in Contact, NEW j \in StepNo
    PROVE  delivered'[x][j] = IF x = a /\ j = k THEN delivered[x][j] + 1 ELSE delivered[x][j]
<1>1. delivered \in [Contact -> [StepNo -> Nat]]
  BY DEF Typed, OutsideTyped
<1>2. delivered' = [delivered EXCEPT ![a] = [delivered[a] EXCEPT ![k] = delivered[a][k] + 1]]
  BY DEF Deliver
<1>3. delivered[a] \in [StepNo -> Nat]
  BY <1>1
<1>4. delivered'[x] = IF x = a THEN [delivered[a] EXCEPT ![k] = delivered[a][k] + 1]
                               ELSE delivered[x]
  BY <1>1, <1>2
<1> QED  BY <1>3, <1>4

\* ... and each further mail of a message is paid for by a fault.
LEMMA TalliedStep ==
    Typed /\ Typed' /\ Counted /\ OneSender /\ Unsent /\ Tallied /\ [Next]_vars => Tallied'
<1> SUFFICES ASSUME Typed, Typed', Counted, OneSender, Unsent, Tallied, [Next]_vars,
                    NEW x \in Contact, NEW j \in StepNo, InTime(x)'
             PROVE  Tally(x, j)'
  BY DEF Tallied
<1>0. /\ Typed /\ Typed' /\ ContactTyped /\ MailTyped /\ PlaceTyped /\ CopyTyped
      /\ OneSender /\ Unsent /\ InTime(x) /\ Tally(x, j)
      /\ Final(x) => Final(x)'
      /\ faults \in Nat /\ faults' \in Nat /\ delivered[x][j] \in Nat
      /\ Cardinality(Bouncing(x, j)) \in Nat /\ Cardinality(Bouncing(x, j)') \in Nat
  <2>1. faults \in Nat /\ faults' \in Nat
    BY FaultsFact DEF Typed
  <2>2. delivered[x][j] \in Nat
    BY DEF Typed, OutsideTyped
  <2>3. InTime(x)
    BY InTimeBefore
  <2> QED
    BY <2>1, <2>2, <2>3, FinalStays, BouncingFinite, BouncingNextFinite DEF Typed, Tallied

<1>1. ASSUME NEW c \in Contact, LaunchAdd(c)
      PROVE  Tally(x, j)'
  <2> /\ delivered'[x][j] = delivered[x][j] /\ Bouncing(x, j)' \subseteq Bouncing(x, j)
      /\ faults' >= faults /\ (faults' > faults \/ (Closed(x, j) => Closed(x, j)'))
    BY <1>0, <1>1 DEF LaunchAdd, Bouncing, Closed, PlaceTyped, CopyTyped, MailTyped, Working,
       mailbox, outside, batch
  <2> QED  BY <1>0, TallyKept
<1>2. ASSUME NEW c \in Contact, HandleInbound(c)
      PROVE  Tally(x, j)'
  <2> /\ delivered'[x][j] = delivered[x][j] /\ Bouncing(x, j)' \subseteq Bouncing(x, j)
      /\ faults' >= faults /\ (faults' > faults \/ (Closed(x, j) => Closed(x, j)'))
    BY <1>0, <1>2 DEF HandleInbound, Fault, Bouncing, Closed, PlaceTyped, CopyTyped, MailTyped,
       Working, mailbox, outside, batch
  <2> QED  BY <1>0, TallyKept
<1>3. ASSUME NEW c \in Contact, UnsubContact(c)
      PROVE  Tally(x, j)'
  <2> /\ delivered'[x][j] = delivered[x][j] /\ Bouncing(x, j)' \subseteq Bouncing(x, j)
      /\ faults' >= faults /\ (faults' > faults \/ (Closed(x, j) => Closed(x, j)'))
    BY <1>0, <1>3 DEF UnsubContact, Fault, Bouncing, Closed, PlaceTyped, CopyTyped, MailTyped,
       Working, mailbox, outside, batch
  <2> QED  BY <1>0, TallyKept
<1>4. ASSUME NEW b \in Batch, BatchStart(b)
      PROVE  Tally(x, j)'
  <2> /\ delivered'[x][j] = delivered[x][j] /\ Bouncing(x, j)' \subseteq Bouncing(x, j)
      /\ faults' >= faults /\ (faults' > faults \/ (Closed(x, j) => Closed(x, j)'))
    BY <1>0, <1>4 DEF BatchStart, Goto, Bouncing, Closed, PlaceTyped, CopyTyped, MailTyped,
       Working, mailbox, outside, batch
  <2> QED  BY <1>0, TallyKept
<1>5. ASSUME NEW b \in Batch, BatchRequeue(b)
      PROVE  Tally(x, j)'
  <2> /\ delivered'[x][j] = delivered[x][j] /\ Bouncing(x, j)' \subseteq Bouncing(x, j)
      /\ faults' >= faults /\ (faults' > faults \/ (Closed(x, j) => Closed(x, j)'))
    BY <1>0, <1>5 DEF BatchRequeue, Fault, Goto, Bouncing, Closed, PlaceTyped, CopyTyped, MailTyped,
       Working, mailbox, outside, batch
  <2> QED  BY <1>0, TallyKept
<1>6. ASSUME NEW b \in Batch, BatchSelect(b)
      PROVE  Tally(x, j)'
  <2> /\ delivered'[x][j] = delivered[x][j] /\ Bouncing(x, j)' \subseteq Bouncing(x, j)
      /\ faults' >= faults /\ (faults' > faults \/ (Closed(x, j) => Closed(x, j)'))
    BY <1>0, <1>6 DEF BatchSelect, Goto, Bouncing, Closed, PlaceTyped, CopyTyped, MailTyped,
       Working, mailbox, outside, batch
  <2> QED  BY <1>0, TallyKept
<1>7. ASSUME NEW b \in Batch, BatchDrained(b)
      PROVE  Tally(x, j)'
  <2> /\ delivered'[x][j] = delivered[x][j] /\ Bouncing(x, j)' \subseteq Bouncing(x, j)
      /\ faults' >= faults /\ (faults' > faults \/ (Closed(x, j) => Closed(x, j)'))
    BY <1>0, <1>7 DEF BatchDrained, Goto, Forget, Bouncing, Closed, PlaceTyped, CopyTyped,
       MailTyped, Working, mailbox, outside, batch
  <2> QED  BY <1>0, TallyKept
<1>8. ASSUME NEW b \in Batch, NEW c \in Contact, BatchSkip(b, c)
      PROVE  Tally(x, j)'
  <2> /\ delivered'[x][j] = delivered[x][j] /\ Bouncing(x, j)' \subseteq Bouncing(x, j)
      /\ faults' >= faults /\ (faults' > faults \/ (Closed(x, j) => Closed(x, j)'))
    BY <1>0, <1>8 DEF BatchSkip, Fault, Bouncing, Closed, PlaceTyped, CopyTyped, MailTyped,
       Working, mailbox, outside, batch
  <2> QED  BY <1>0, TallyKept
<1>9. ASSUME NEW b \in Batch, NEW c \in Contact, BatchPick(b, c)
      PROVE  Tally(x, j)'
  <2> /\ delivered'[x][j] = delivered[x][j] /\ Bouncing(x, j)' \subseteq Bouncing(x, j)
      /\ faults' >= faults /\ (faults' > faults \/ (Closed(x, j) => Closed(x, j)'))
    BY <1>0, <1>9 DEF BatchPick, Goto, Fault, Bouncing, Closed, PlaceTyped, CopyTyped,
       MailTyped, Working, mailbox, outside, batch
  <2> QED  BY <1>0, TallyKept
<1>10. ASSUME NEW b \in Batch, BatchLimited(b)
      PROVE  Tally(x, j)'
  <2> /\ delivered'[x][j] = delivered[x][j] /\ Bouncing(x, j)' \subseteq Bouncing(x, j)
      /\ faults' >= faults /\ (faults' > faults \/ (Closed(x, j) => Closed(x, j)'))
    BY <1>0, <1>10 DEF BatchLimited, Goto, Bouncing, Closed, PlaceTyped, CopyTyped, MailTyped,
       Working, mailbox, outside, batch
  <2> QED  BY <1>0, TallyKept
<1>11. ASSUME NEW b \in Batch, BatchWalk(b)
      PROVE  Tally(x, j)'
  <2> /\ delivered'[x][j] = delivered[x][j] /\ Bouncing(x, j)' \subseteq Bouncing(x, j)
      /\ faults' >= faults /\ (faults' > faults \/ (Closed(x, j) => Closed(x, j)'))
    BY <1>0, <1>11 DEF BatchWalk, Goto, Fault, Bouncing, Closed, PlaceTyped, CopyTyped,
       MailTyped, Working, mailbox, outside, batch
  <2> QED  BY <1>0, TallyKept
<1>12. ASSUME NEW b \in Batch, BatchReply(b)
      PROVE  Tally(x, j)'
  <2> /\ delivered'[x][j] = delivered[x][j] /\ Bouncing(x, j)' \subseteq Bouncing(x, j)
      /\ faults' >= faults /\ (faults' > faults \/ (Closed(x, j) => Closed(x, j)'))
    BY <1>0, <1>12 DEF BatchReply, Goto, Fault, Bouncing, Closed, PlaceTyped, CopyTyped,
       MailTyped, Working, mailbox, outside, batch
  <2> QED  BY <1>0, TallyKept
<1>13. ASSUME NEW b \in Batch, BatchClaim(b)
      PROVE  Tally(x, j)'
  <2> /\ delivered'[x][j] = delivered[x][j] /\ Bouncing(x, j)' \subseteq Bouncing(x, j)
      /\ faults' >= faults /\ (faults' > faults \/ (Closed(x, j) => Closed(x, j)'))
    BY <1>0, <1>13 DEF BatchClaim, Goto, Fault, Bouncing, Closed, PlaceTyped, CopyTyped,
       MailTyped, Working, mailbox, outside, batch
  <2> QED  BY <1>0, TallyKept
<1>14. ASSUME NEW b \in Batch, BatchRecord(b)
      PROVE  Tally(x, j)'
  <2>1. /\ delivered' = delivered /\ faults' = faults /\ cur' = cur /\ idx' = idx
        /\ cur[b] \in Contact /\ idx[b] \in StepNo /\ pc[b] = "record"
        /\ pc'[b] \in {"advance", "smtp"} /\ \A e \in Batch \ {b} : pc'[e] = pc[e]
        /\ \/ message' = message
           \/ /\ message[cur[b]][idx[b]] # "sent"
              /\ message' = [message EXCEPT ![cur[b]][idx[b]] = "sending"]
    BY <1>0, <1>14 DEF BatchRecord, Goto, PlaceTyped, CopyTyped, Working, outside
  <2>2. Bouncing(x, j)' \subseteq Bouncing(x, j)
    BY <1>0, <2>1 DEF Bouncing
  <2>3. message[x][j] = "sent" => message'[x][j] = "sent"
    BY <1>0, <2>1 DEF MailTyped
  <2>4. Closed(x, j) => Closed(x, j)'
    BY <2>1, <2>3 DEF Closed
  <2> QED  BY <1>0, <2>1, <2>2, <2>4, TallyKept
<1>15. ASSUME NEW b \in Batch, BatchRecordError(b)
      PROVE  Tally(x, j)'
  <2> /\ delivered'[x][j] = delivered[x][j] /\ Bouncing(x, j)' \subseteq Bouncing(x, j)
      /\ faults' >= faults /\ (faults' > faults \/ (Closed(x, j) => Closed(x, j)'))
    BY <1>0, <1>15 DEF BatchRecordError, Goto, Fault, Bouncing, Closed, PlaceTyped, CopyTyped,
       MailTyped, Working, mailbox, outside, batch
  <2> QED  BY <1>0, TallyKept
<1>16. ASSUME NEW b \in Batch, BatchSend(b)
      PROVE  Tally(x, j)'
  <2> DEFINE a == cur[b]
             k == idx[b]
  <2>1. /\ a \in Contact /\ k \in StepNo /\ pc[b] = "smtp" /\ Holds(b, a)
        /\ message' = message /\ faults' = faults /\ cur' = cur /\ idx' = idx
        /\ \A e \in Batch \ {b} : pc'[e] = pc[e]
        /\ pc'[b] \in {"mark", "bounce", "fail"}
    BY <1>0, <1>16 DEF BatchSend, Goto, Holds, PlaceTyped, CopyTyped, Working, mailbox
  <2>2. /\ Bouncing(x, j)' = Bouncing(x, j)
        /\ Closed(x, j) => Closed(x, j)'
    BY <1>0, <2>1 DEF Bouncing, Closed, PlaceTyped
  <2>3. CASE delivered'[x][j] = delivered[x][j]
    BY <1>0, <2>1, <2>2, <2>3, TallyKept
  <2>4. CASE delivered'[x][j] # delivered[x][j]
    <3>1. Deliver(a, k) /\ pc'[b] \in {"mark", "fail"}
      BY <1>0, <2>1, <2>4, <1>16 DEF BatchSend, Goto, PlaceTyped
    <3>2. x = a /\ j = k /\ delivered'[x][j] = delivered[x][j] + 1
      BY <1>0, <2>1, <2>4, <3>1, Delivery
    <3>3. ~Final(x) /\ ~Closed(x, j)
      BY <1>0, <2>1, <3>2 DEF Final, Closed, Unsent, OneSender, Holds
    <3>4. Closed(x, j)'
      BY <2>1, <3>1, <3>2 DEF Closed
    <3> QED  BY <1>0, <2>1, <2>2, <3>2, <3>3, <3>4 DEF Tally
  <2> QED  BY <2>3, <2>4
<1>17. ASSUME NEW b \in Batch, BatchBounce(b)
      PROVE  Tally(x, j)'
  <2>1. cur[b] \in Contact /\ Holds(b, cur[b])
    BY <1>0, <1>17 DEF BatchBounce, PlaceTyped, Working, Holds
  <2>2. delivered' = delivered /\ faults' = faults /\ message' = message
    BY <1>17 DEF BatchBounce, mailbox, outside
  <2>3. CASE x = cur[b]
    <3>1. Final(x)'
      BY <1>0, <1>17, <2>1, <2>3
      DEF BatchBounce, Goto, SetStatus, Final, OneSender, Holds, PlaceTyped, ContactTyped, Done
    <3> QED  BY <1>0, <2>2, <3>1 DEF Tally
  <2>4. CASE x # cur[b]
    <3>1. Bouncing(x, j)' = Bouncing(x, j) /\ Closed(x, j)' = Closed(x, j)
      BY <1>0, <1>17, <2>2, <2>4 DEF BatchBounce, Goto, Bouncing, Closed, PlaceTyped
    <3> QED  BY <1>0, <2>2, <3>1, TallyKept
  <2> QED  BY <2>3, <2>4
<1>18. ASSUME NEW b \in Batch, BatchSuppress(b)
      PROVE  Tally(x, j)'
  <2>1. /\ delivered' = delivered /\ faults' = faults /\ cur' = cur /\ idx' = idx
        /\ cur[b] \in Contact /\ idx[b] \in StepNo
        /\ pc[b] = "suppress" /\ pc' = [pc EXCEPT ![b] = "pick"]
        /\ message' = [message EXCEPT ![cur[b]][idx[b]] = "bounced"]
    BY <1>0, <1>18 DEF BatchSuppress, Goto, PlaceTyped, CopyTyped, Working, outside
  <2>2. CASE cur[b] = x /\ idx[b] = j
    <3>1. b \in Bouncing(x, j) /\ Bouncing(x, j)' = Bouncing(x, j) \ {b}
      BY <1>0, <2>1, <2>2 DEF Bouncing, PlaceTyped
    <3>2. Cardinality(Bouncing(x, j)') = Cardinality(Bouncing(x, j)) - 1
      BY <3>1, BouncingFinite, FS_RemoveElement
    <3> QED  BY <1>0, <2>1, <3>2 DEF Tally
  <2>3. CASE ~(cur[b] = x /\ idx[b] = j)
    <3>1. /\ Bouncing(x, j)' \subseteq Bouncing(x, j)
          /\ message'[x][j] = message[x][j]
      BY <1>0, <2>1, <2>3 DEF Bouncing, PlaceTyped, MailTyped
    <3>2. Closed(x, j) => Closed(x, j)'
      BY <1>0, <2>1, <3>1 DEF Closed, PlaceTyped
    <3> QED  BY <1>0, <2>1, <3>1, <3>2, TallyKept
  <2> QED  BY <2>2, <2>3
<1>19. ASSUME NEW b \in Batch, BatchFail(b)
      PROVE  Tally(x, j)'
  <2>1. /\ delivered' = delivered /\ faults' = faults /\ cur' = cur /\ idx' = idx
        /\ cur[b] \in Contact /\ idx[b] \in StepNo /\ Holds(b, cur[b])
        /\ pc' = [pc EXCEPT ![b] = "pick"] /\ pc[b] = "fail"
        /\ message' = [message EXCEPT ![cur[b]][idx[b]] = "failed"]
    BY <1>0, <1>19 DEF BatchFail, Goto, PlaceTyped, CopyTyped, Working, Holds, outside
  <2>2. Bouncing(x, j)' \subseteq Bouncing(x, j)
    BY <1>0, <2>1 DEF Bouncing, PlaceTyped
  <2>3. CASE cur[b] = x
    <3>1. Final(x)'
      BY <1>0, <1>19, <2>1, <2>3
      DEF BatchFail, SetStatus, Final, OneSender, Holds, PlaceTyped, ContactTyped, Done
    <3> QED  BY <1>0, <2>1, <2>2, <3>1, TallyKept
  <2>4. CASE cur[b] # x
    <3>1. Closed(x, j) => Closed(x, j)'
      BY <1>0, <2>1, <2>4 DEF Closed, PlaceTyped, MailTyped
    <3> QED  BY <1>0, <2>1, <2>2, <3>1, TallyKept
  <2> QED  BY <2>3, <2>4
<1>20. ASSUME NEW b \in Batch, BatchMark(b)
      PROVE  Tally(x, j)'
  <2> /\ delivered'[x][j] = delivered[x][j] /\ Bouncing(x, j)' \subseteq Bouncing(x, j)
      /\ faults' >= faults /\ (faults' > faults \/ (Closed(x, j) => Closed(x, j)'))
    BY <1>0, <1>20 DEF BatchMark, Goto, Bouncing, Closed, PlaceTyped, CopyTyped, MailTyped,
       Working, mailbox, outside, batch
  <2> QED  BY <1>0, TallyKept
<1>21. ASSUME NEW b \in Batch, BatchAdvance(b)
      PROVE  Tally(x, j)'
  <2> /\ delivered'[x][j] = delivered[x][j] /\ Bouncing(x, j)' \subseteq Bouncing(x, j)
      /\ faults' >= faults /\ (faults' > faults \/ (Closed(x, j) => Closed(x, j)'))
    BY <1>0, <1>21 DEF BatchAdvance, Goto, Bouncing, Closed, PlaceTyped, CopyTyped, MailTyped,
       Working, mailbox, outside, batch
  <2> QED  BY <1>0, TallyKept
<1>22. ASSUME NEW b \in Batch, BatchWriteError(b)
      PROVE  Tally(x, j)'
  <2>1. /\ delivered' = delivered /\ faults' = faults + 1 /\ message' = message
        /\ cur' = cur /\ idx' = idx
        /\ \A e \in Batch \ {b} : pc'[e] = pc[e]
        /\ pc[b] = "bounce" <=> pc'[b] = "suppress"
    BY <1>0, <1>22 DEF BatchWriteError, Goto, Fault, PlaceTyped, mailbox, outside
  <2>2. CASE pc[b] = "bounce" /\ cur[b] = x /\ idx[b] = j
    <3>1. Holds(b, x)
      BY <2>2 DEF Holds
    <3>2. /\ Bouncing(x, j)' = Bouncing(x, j) \cup {b}
          /\ b \notin Bouncing(x, j)
      BY <1>0, <2>1, <2>2 DEF Bouncing, PlaceTyped
    <3>3. Cardinality(Bouncing(x, j)') = Cardinality(Bouncing(x, j)) + 1
      BY <3>2, BouncingFinite, FS_AddElement
    <3>4. ~Final(x) /\ (Closed(x, j) => Closed(x, j)')
      BY <1>0, <2>1, <2>2, <3>1 DEF Final, Closed, OneSender, Holds
    <3> QED  BY <1>0, <2>1, <3>3, <3>4 DEF Tally
  <2>3. CASE ~(pc[b] = "bounce" /\ cur[b] = x /\ idx[b] = j)
    <3>1. Bouncing(x, j)' \subseteq Bouncing(x, j)
      BY <1>0, <2>1, <2>3 DEF Bouncing, PlaceTyped
    <3> QED  BY <1>0, <2>1, <3>1, TallyKept
  <2> QED  BY <2>2, <2>3
<1>23. ASSUME NEW b \in Batch, BatchCount(b)
      PROVE  Tally(x, j)'
  <2> /\ delivered'[x][j] = delivered[x][j] /\ Bouncing(x, j)' \subseteq Bouncing(x, j)
      /\ faults' >= faults /\ (faults' > faults \/ (Closed(x, j) => Closed(x, j)'))
    BY <1>0, <1>23 DEF BatchCount, Fault, Goto, Bouncing, Closed, PlaceTyped, CopyTyped, MailTyped,
       Working, mailbox, outside, batch
  <2> QED  BY <1>0, TallyKept
<1>24. ASSUME NEW b \in Batch, BatchComplete(b)
      PROVE  Tally(x, j)'
  <2> /\ delivered'[x][j] = delivered[x][j] /\ Bouncing(x, j)' \subseteq Bouncing(x, j)
      /\ faults' >= faults /\ (faults' > faults \/ (Closed(x, j) => Closed(x, j)'))
    BY <1>0, <1>24 DEF BatchComplete, Goto, Bouncing, Closed, PlaceTyped, CopyTyped, MailTyped,
       Working, mailbox, outside, batch
  <2> QED  BY <1>0, TallyKept
<1>25. ASSUME NEW b \in Batch, BatchLost(b)
      PROVE  Tally(x, j)'
  <2> /\ delivered'[x][j] = delivered[x][j] /\ Bouncing(x, j)' \subseteq Bouncing(x, j)
      /\ faults' >= faults /\ (faults' > faults \/ (Closed(x, j) => Closed(x, j)'))
    BY <1>0, <1>25 DEF BatchLost, Goto, Fault, Forget, Bouncing, Closed, PlaceTyped, CopyTyped,
       MailTyped, Working, mailbox, outside, batch
  <2> QED  BY <1>0, TallyKept
<1>26. ASSUME NEW c \in Contact, UnsubSuppress(c)
      PROVE  Tally(x, j)'
  <2> /\ delivered'[x][j] = delivered[x][j] /\ Bouncing(x, j)' \subseteq Bouncing(x, j)
      /\ faults' >= faults /\ (faults' > faults \/ (Closed(x, j) => Closed(x, j)'))
    BY <1>0, <1>26 DEF UnsubSuppress, Fault, Bouncing, Closed, PlaceTyped, CopyTyped, MailTyped,
       Working, mailbox, batch
  <2> QED  BY <1>0, TallyKept
<1>27. CASE UNCHANGED <<status, message, delivered, pc, cur, idx, faults>>
  BY <1>0, <1>27 DEF Tally, Final, Holds, Closed, Bouncing
<1> QED
  BY <1>1, <1>2, <1>3, <1>4, <1>5, <1>6, <1>7, <1>8, <1>9, <1>10, <1>11, <1>12, <1>13, <1>14,
     <1>15, <1>16, <1>17, <1>18, <1>19, <1>20, <1>21, <1>22, <1>23, <1>24, <1>25, <1>26, <1>27
  DEF Next, UserStep, ContactStep, BatchStep, vars, camp, contact, address, mailbox,
      outside, batch, LaunchRead, LaunchUpdate, HandleCampaignPause, MoveCampaign,
      HandleCampaignCancel, OutreachTick, UnsubNotFound, DaysPass, Abandon,
      HourPasses

\* The inductive invariant: while no claim of a contact was outlasted it has one
\* sender, and there is a failure behind each message sent again.
SendInv == Typed /\ Counted /\ OneSender /\ Unsent /\ Tallied

-----------------------------------------------------------------------------
(* Mail after the address was suppressed.                                  *)

\* Where a batch has looked at the suppression list and not yet mailed.
PastCheck == {"limit", "reply", "claim", "record", "smtp"}

\* It is on its way to the next email of its copy.
OnCourse ==
    \A b \in Batch : pc[b] \in PastCheck \ {"limit"} =>
        idx[b] = NextEmail(snap[b][cur[b]].step)

\* The steps of a contact: those that will not be mailed again, those that
\* were mailed, and those that batches past the check are going to.
Shut(c)   == {i \in StepNo : Closed(c, i)}
Mailed(c) == {i \in StepNo : delivered[c][i] > 0}
Aims(c)   == {i \in StepNo : \E b \in Batch :
                 pc[b] \in PastCheck /\ cur[b] = c /\ i = NextEmail(snap[b][c].step)}

\* What was mailed and is open again, what can still be mailed, and who may
\* yet open a step.
Holes(c)     == Mailed(c) \ Shut(c)
AtRisk(c)    == Aims(c) \ Shut(c)
Recording(c) == {b \in Batch : pc[b] = "suppress" /\ cur[b] = c}

\* Each open step that was mailed, and each batch that may open one, is paid
\* for by a fault.
HolesPaid == \A c \in Contact : InTime(c) =>
    Final(c) \/ Cardinality(Holes(c)) + Cardinality(Recording(c)) <= faults

\* So are the late mails and those that may follow, but for one.
LatePaid == \A c \in Contact : InTime(c) =>
    /\ late[c] <= 1 + faults
    /\ ~suppressed[c] => late[c] = 0
    /\ suppressed[c] =>
          \/ Final(c)
          \/ late[c] + Cardinality(AtRisk(c)) + Cardinality(Recording(c)) <= 1 + faults

\* Steps can be counted.
LEMMA StepSets ==
    ASSUME NEW S \in SUBSET StepNo
    PROVE  IsFiniteSet(S) /\ Cardinality(S) \in Nat
<1>1. IsFiniteSet(StepNo)
  BY StepsFact, FS_Interval DEF StepNo
<1> QED  BY <1>1, FS_Subset, FS_CardinalityType

\* The sets above are such sets, before a step and after it.
LEMMA LateSets ==
    ASSUME NEW c
    PROVE  /\ Holes(c) \in SUBSET StepNo /\ Holes(c)' \in SUBSET StepNo
           /\ AtRisk(c) \in SUBSET StepNo /\ AtRisk(c)' \in SUBSET StepNo
           /\ Recording(c) \in SUBSET Batch /\ Recording(c)' \in SUBSET Batch
           /\ Cardinality(Holes(c)) \in Nat /\ Cardinality(Holes(c)') \in Nat
           /\ Cardinality(AtRisk(c)) \in Nat /\ Cardinality(AtRisk(c)') \in Nat
           /\ Cardinality(Recording(c)) \in Nat /\ Cardinality(Recording(c)') \in Nat
<1>1. /\ Holes(c) \in SUBSET StepNo /\ Holes(c)' \in SUBSET StepNo
      /\ AtRisk(c) \in SUBSET StepNo /\ AtRisk(c)' \in SUBSET StepNo
      /\ Recording(c) \in SUBSET Batch /\ Recording(c)' \in SUBSET Batch
  BY DEF Holes, Mailed, AtRisk, Aims, Recording
<1> QED  BY <1>1, StepSets, BatchSets

\* The kinds of steps, for one contact: nothing is opened or aimed at; a fault
\* opens a step, adds an aim or leaves a bounce to be recorded; a bounce is
\* recorded; a mail goes out; the contact becomes final.
SameMail(x) == delivered'[x] = delivered[x] /\ late'[x] = late[x]

Quiet(x) ==
    /\ SameMail(x) /\ faults' >= faults
    /\ Shut(x) \subseteq Shut(x)'
    /\ Recording(x)' \subseteq Recording(x)
    /\ suppressed[x] => Aims(x)' \subseteq Aims(x)

Failure(x) ==
    /\ SameMail(x) /\ faults' = faults + 1
    /\ \/ /\ \E k : Shut(x) \ {k} \subseteq Shut(x)' /\ Aims(x)' \subseteq Aims(x)
          /\ Recording(x)' \subseteq Recording(x)
       \/ /\ \E k : Shut(x) \subseteq Shut(x)' /\ Aims(x)' \subseteq Aims(x) \cup {k}
          /\ Recording(x)' \subseteq Recording(x)
       \/ /\ Shut(x) \subseteq Shut(x)' /\ Aims(x)' \subseteq Aims(x)
          /\ \E b : Recording(x)' \subseteq Recording(x) \cup {b}

Bounce(x) ==
    /\ SameMail(x) /\ faults' = faults
    /\ \E k : Shut(x) \ {k} \subseteq Shut(x)'
    /\ Aims(x)' \subseteq Aims(x)
    /\ \E b \in Recording(x) : Recording(x)' \subseteq Recording(x) \ {b}

OneMail(x) ==
    /\ ~Final(x) /\ faults' = faults
    /\ late'[x] = IF suppressed[x] THEN late[x] + 1 ELSE late[x]
    /\ Shut(x) \subseteq Shut(x)'
    /\ Recording(x)' \subseteq Recording(x)
    /\ Aims(x)' \subseteq Aims(x)
    /\ \E k \in Aims(x) : /\ k \notin Shut(x) /\ k \in Shut(x)'
                          /\ \A i \in StepNo \ {k} : delivered'[x][i] = delivered[x][i]

End(x) == SameMail(x) /\ faults' = faults /\ Final(x)'

Step(x) == Quiet(x) \/ Failure(x) \/ Bounce(x) \/ OneMail(x) \/ End(x)

\* There is no other kind.
LEMMA StepKinds ==
    ASSUME Typed, OneSender, Unsent, OnCourse, [Next]_vars, NEW x \in Contact, InTime(x)
    PROVE  Step(x)
<1>0. /\ ContactTyped /\ MailTyped /\ OutsideTyped /\ PlaceTyped /\ CopyTyped /\ Typed
      /\ OneSender /\ Unsent /\ OnCourse /\ InTime(x) /\ faults \in Nat
  BY FaultsFact DEF Typed
<1>1. ASSUME NEW c \in Contact, LaunchAdd(c)
      PROVE  Step(x)
  <2>1. SameMail(x) /\ faults' >= faults
    BY <1>0, <1>1 DEF LaunchAdd, SameMail, outside
  <2>2. Shut(x) \subseteq Shut(x)'
    BY <1>0, <1>1 DEF LaunchAdd, Shut, Closed, PlaceTyped, CopyTyped, MailTyped, Working, mailbox,
       batch
  <2>3. Recording(x)' \subseteq Recording(x) /\ Aims(x)' \subseteq Aims(x)
    BY <1>0, <1>1 DEF LaunchAdd, Recording, Aims, PastCheck, PlaceTyped, CopyTyped, Working, batch
  <2> QED  BY <2>1, <2>2, <2>3 DEF Step, Quiet
<1>2. ASSUME NEW c \in Contact, HandleInbound(c)
      PROVE  Step(x)
  <2>1. SameMail(x) /\ faults' >= faults
    BY <1>0, <1>2 DEF HandleInbound, Fault, SameMail, outside
  <2>2. Shut(x) \subseteq Shut(x)'
    BY <1>0, <1>2 DEF HandleInbound, Fault, Shut, Closed, PlaceTyped, CopyTyped, MailTyped,
       Working, mailbox, batch
  <2>3. Recording(x)' \subseteq Recording(x) /\ Aims(x)' \subseteq Aims(x)
    BY <1>0, <1>2 DEF HandleInbound, Fault, Recording, Aims, PastCheck, PlaceTyped, CopyTyped,
       Working, batch
  <2> QED  BY <2>1, <2>2, <2>3 DEF Step, Quiet
<1>3. ASSUME NEW c \in Contact, UnsubSuppress(c)
      PROVE  Step(x)
  <2>1. SameMail(x) /\ faults' >= faults
    BY <1>0, <1>3 DEF UnsubSuppress, Fault, SameMail, outside
  <2>2. Shut(x) \subseteq Shut(x)'
    BY <1>0, <1>3 DEF UnsubSuppress, Fault, Shut, Closed, PlaceTyped, CopyTyped, MailTyped, Working,
       mailbox, batch
  <2>3. Recording(x)' \subseteq Recording(x) /\ Aims(x)' \subseteq Aims(x)
    BY <1>0, <1>3 DEF UnsubSuppress, Fault, Recording, Aims, PastCheck, PlaceTyped, CopyTyped, Working,
       batch
  <2> QED  BY <2>1, <2>2, <2>3 DEF Step, Quiet
<1>4. ASSUME NEW c \in Contact, UnsubContact(c)
      PROVE  Step(x)
  <2>1. SameMail(x) /\ faults' >= faults
    BY <1>0, <1>4 DEF UnsubContact, Fault, SameMail, outside
  <2>2. Shut(x) \subseteq Shut(x)'
    BY <1>0, <1>4 DEF UnsubContact, Fault, Shut, Closed, PlaceTyped, CopyTyped, MailTyped,
       Working, mailbox, batch
  <2>3. Recording(x)' \subseteq Recording(x) /\ Aims(x)' \subseteq Aims(x)
    BY <1>0, <1>4 DEF UnsubContact, Fault, Recording, Aims, PastCheck, PlaceTyped, CopyTyped,
       Working, batch
  <2> QED  BY <2>1, <2>2, <2>3 DEF Step, Quiet
<1>5. ASSUME NEW b \in Batch, BatchStart(b)
      PROVE  Step(x)
  <2>1. SameMail(x) /\ faults' >= faults
    BY <1>0, <1>5 DEF BatchStart, SameMail, outside
  <2>2. Shut(x) \subseteq Shut(x)'
    BY <1>0, <1>5 DEF BatchStart, Goto, Shut, Closed, PlaceTyped, CopyTyped, MailTyped, Working,
       mailbox, batch
  <2>3. Recording(x)' \subseteq Recording(x) /\ Aims(x)' \subseteq Aims(x)
    BY <1>0, <1>5 DEF BatchStart, Goto, Recording, Aims, PastCheck, PlaceTyped, CopyTyped,
       Working, batch
  <2> QED  BY <2>1, <2>2, <2>3 DEF Step, Quiet
<1>6. ASSUME NEW b \in Batch, BatchRequeue(b)
      PROVE  Step(x)
  <2>1. SameMail(x) /\ faults' >= faults
    BY <1>0, <1>6 DEF BatchRequeue, Fault, SameMail, outside
  <2>2. Shut(x) \subseteq Shut(x)'
    BY <1>0, <1>6 DEF BatchRequeue, Fault, Goto, Shut, Closed, PlaceTyped, CopyTyped, MailTyped, Working,
       mailbox, batch
  <2>3. Recording(x)' \subseteq Recording(x) /\ Aims(x)' \subseteq Aims(x)
    BY <1>0, <1>6 DEF BatchRequeue, Fault, Goto, Recording, Aims, PastCheck, PlaceTyped, CopyTyped,
       Working, batch
  <2> QED  BY <2>1, <2>2, <2>3 DEF Step, Quiet
<1>7. ASSUME NEW b \in Batch, BatchSelect(b)
      PROVE  Step(x)
  <2>1. SameMail(x) /\ faults' >= faults
    BY <1>0, <1>7 DEF BatchSelect, SameMail, outside
  <2>2. Shut(x) \subseteq Shut(x)'
    BY <1>0, <1>7 DEF BatchSelect, Goto, Shut, Closed, PlaceTyped, CopyTyped, MailTyped, Working,
       mailbox, batch
  <2>3. Recording(x)' \subseteq Recording(x) /\ Aims(x)' \subseteq Aims(x)
    BY <1>0, <1>7 DEF BatchSelect, Goto, Recording, Aims, PastCheck, PlaceTyped, CopyTyped,
       Working, batch
  <2> QED  BY <2>1, <2>2, <2>3 DEF Step, Quiet
<1>8. ASSUME NEW b \in Batch, BatchDrained(b)
      PROVE  Step(x)
  <2>1. SameMail(x) /\ faults' >= faults
    BY <1>0, <1>8 DEF BatchDrained, SameMail, outside
  <2>2. Shut(x) \subseteq Shut(x)'
    BY <1>0, <1>8 DEF BatchDrained, Goto, Forget, Shut, Closed, PlaceTyped, CopyTyped, MailTyped,
       Working, mailbox, batch
  <2>3. Recording(x)' \subseteq Recording(x) /\ Aims(x)' \subseteq Aims(x)
    BY <1>0, <1>8 DEF BatchDrained, Goto, Forget, Recording, Aims, PastCheck, PlaceTyped,
       CopyTyped, Working, batch
  <2> QED  BY <2>1, <2>2, <2>3 DEF Step, Quiet
<1>9. ASSUME NEW b \in Batch, NEW c \in Contact, BatchSkip(b, c)
      PROVE  Step(x)
  <2>1. SameMail(x) /\ faults' >= faults
    BY <1>0, <1>9 DEF BatchSkip, Fault, SameMail, outside
  <2>2. Shut(x) \subseteq Shut(x)'
    BY <1>0, <1>9 DEF BatchSkip, Fault, Shut, Closed, PlaceTyped, CopyTyped, MailTyped, Working,
       mailbox, batch
  <2>3. Recording(x)' \subseteq Recording(x) /\ Aims(x)' \subseteq Aims(x)
    BY <1>0, <1>9 DEF BatchSkip, Fault, Recording, Aims, PastCheck, PlaceTyped, CopyTyped,
       Working, batch
  <2> QED  BY <2>1, <2>2, <2>3 DEF Step, Quiet
<1>10. ASSUME NEW b \in Batch, BatchLimited(b)
      PROVE  Step(x)
  <2>1. SameMail(x) /\ faults' >= faults
    BY <1>0, <1>10 DEF BatchLimited, SameMail, outside
  <2>2. Shut(x) \subseteq Shut(x)'
    BY <1>0, <1>10 DEF BatchLimited, Goto, Shut, Closed, PlaceTyped, CopyTyped, MailTyped,
       Working, mailbox, batch
  <2>3. Recording(x)' \subseteq Recording(x) /\ Aims(x)' \subseteq Aims(x)
    BY <1>0, <1>10 DEF BatchLimited, Goto, Recording, Aims, PastCheck, PlaceTyped, CopyTyped,
       Working, batch
  <2> QED  BY <2>1, <2>2, <2>3 DEF Step, Quiet
<1>11. ASSUME NEW b \in Batch, BatchWalk(b)
      PROVE  Step(x)
  <2>1. SameMail(x) /\ faults' >= faults
    BY <1>0, <1>11 DEF BatchWalk, Fault, SameMail, outside
  <2>2. Shut(x) \subseteq Shut(x)'
    BY <1>0, <1>11 DEF BatchWalk, Goto, Fault, Shut, Closed, PlaceTyped, CopyTyped, MailTyped,
       Working, mailbox, batch
  <2>3. Recording(x)' \subseteq Recording(x) /\ Aims(x)' \subseteq Aims(x)
    BY <1>0, <1>11 DEF BatchWalk, Goto, Fault, Recording, Aims, PastCheck, PlaceTyped, CopyTyped,
       Working, batch
  <2> QED  BY <2>1, <2>2, <2>3 DEF Step, Quiet
<1>12. ASSUME NEW b \in Batch, BatchReply(b)
      PROVE  Step(x)
  <2>1. SameMail(x) /\ faults' >= faults
    BY <1>0, <1>12 DEF BatchReply, Fault, SameMail, outside
  <2>2. Shut(x) \subseteq Shut(x)'
    BY <1>0, <1>12 DEF BatchReply, Goto, Fault, Shut, Closed, PlaceTyped, CopyTyped, MailTyped,
       Working, mailbox, batch
  <2>3. Recording(x)' \subseteq Recording(x) /\ Aims(x)' \subseteq Aims(x)
    BY <1>0, <1>12 DEF BatchReply, Goto, Fault, Recording, Aims, PastCheck, PlaceTyped, CopyTyped,
       Working, batch
  <2> QED  BY <2>1, <2>2, <2>3 DEF Step, Quiet
<1>13. ASSUME NEW b \in Batch, BatchClaim(b)
      PROVE  Step(x)
  <2>1. SameMail(x) /\ faults' >= faults
    BY <1>0, <1>13 DEF BatchClaim, Fault, SameMail, outside
  <2>2. Shut(x) \subseteq Shut(x)'
    BY <1>0, <1>13 DEF BatchClaim, Goto, Fault, Shut, Closed, PlaceTyped, CopyTyped, MailTyped,
       Working, mailbox, batch
  <2>3. Recording(x)' \subseteq Recording(x) /\ Aims(x)' \subseteq Aims(x)
    BY <1>0, <1>13 DEF BatchClaim, Goto, Fault, Recording, Aims, PastCheck, PlaceTyped, CopyTyped,
       Working, batch
  <2> QED  BY <2>1, <2>2, <2>3 DEF Step, Quiet
<1>14. ASSUME NEW b \in Batch, BatchRecordError(b)
      PROVE  Step(x)
  <2>1. SameMail(x) /\ faults' >= faults
    BY <1>0, <1>14 DEF BatchRecordError, Fault, SameMail, outside
  <2>2. Shut(x) \subseteq Shut(x)'
    BY <1>0, <1>14 DEF BatchRecordError, Goto, Fault, Shut, Closed, PlaceTyped, CopyTyped,
       MailTyped, Working, mailbox, batch
  <2>3. Recording(x)' \subseteq Recording(x) /\ Aims(x)' \subseteq Aims(x)
    BY <1>0, <1>14 DEF BatchRecordError, Goto, Fault, Recording, Aims, PastCheck, PlaceTyped,
       CopyTyped, Working, batch
  <2> QED  BY <2>1, <2>2, <2>3 DEF Step, Quiet
<1>15. ASSUME NEW b \in Batch, BatchAdvance(b)
      PROVE  Step(x)
  <2>1. SameMail(x) /\ faults' >= faults
    BY <1>0, <1>15 DEF BatchAdvance, SameMail, outside
  <2>2. Shut(x) \subseteq Shut(x)'
    BY <1>0, <1>15 DEF BatchAdvance, Goto, Shut, Closed, PlaceTyped, CopyTyped, MailTyped,
       Working, mailbox, batch
  <2>3. Recording(x)' \subseteq Recording(x) /\ Aims(x)' \subseteq Aims(x)
    BY <1>0, <1>15 DEF BatchAdvance, Goto, Recording, Aims, PastCheck, PlaceTyped, CopyTyped,
       Working, batch
  <2> QED  BY <2>1, <2>2, <2>3 DEF Step, Quiet
<1>16. ASSUME NEW b \in Batch, BatchCount(b)
      PROVE  Step(x)
  <2>1. SameMail(x) /\ faults' >= faults
    BY <1>0, <1>16 DEF BatchCount, Fault, SameMail, outside
  <2>2. Shut(x) \subseteq Shut(x)'
    BY <1>0, <1>16 DEF BatchCount, Fault, Goto, Shut, Closed, PlaceTyped, CopyTyped, MailTyped, Working,
       mailbox, batch
  <2>3. Recording(x)' \subseteq Recording(x) /\ Aims(x)' \subseteq Aims(x)
    BY <1>0, <1>16 DEF BatchCount, Fault, Goto, Recording, Aims, PastCheck, PlaceTyped, CopyTyped,
       Working, batch
  <2> QED  BY <2>1, <2>2, <2>3 DEF Step, Quiet
<1>17. ASSUME NEW b \in Batch, BatchComplete(b)
      PROVE  Step(x)
  <2>1. SameMail(x) /\ faults' >= faults
    BY <1>0, <1>17 DEF BatchComplete, SameMail, outside
  <2>2. Shut(x) \subseteq Shut(x)'
    BY <1>0, <1>17 DEF BatchComplete, Goto, Shut, Closed, PlaceTyped, CopyTyped, MailTyped,
       Working, mailbox, batch
  <2>3. Recording(x)' \subseteq Recording(x) /\ Aims(x)' \subseteq Aims(x)
    BY <1>0, <1>17 DEF BatchComplete, Goto, Recording, Aims, PastCheck, PlaceTyped, CopyTyped,
       Working, batch
  <2> QED  BY <2>1, <2>2, <2>3 DEF Step, Quiet
<1>18. ASSUME NEW b \in Batch, NEW c \in Contact, BatchPick(b, c)
      PROVE  Step(x)
  <2>1. /\ SameMail(x) /\ (faults' = faults \/ faults' = faults + 1)
        /\ UNCHANGED <<message, idx, snap>> /\ pc[b] = "pick" /\ pc'[b] = "limit"
        /\ \A e \in Batch \ {b} : pc'[e] = pc[e] /\ cur'[e] = cur[e]
        /\ cur'[b] = c
        /\ suppressed[c] => faults' = faults + 1
    BY <1>0, <1>18 DEF BatchPick, Fault, Goto, SameMail, PlaceTyped, mailbox, outside
  <2>2. Shut(x) \subseteq Shut(x)'
    BY <1>0, <2>1 DEF Shut, Closed
  <2>3. Recording(x)' \subseteq Recording(x)
    BY <1>0, <2>1 DEF Recording
  <2>4. Aims(x)' \subseteq Aims(x) \cup {NextEmail(snap[b][c].step)}
    BY <1>0, <2>1 DEF Aims
  <2>5. CASE faults' = faults + 1
    BY <2>1, <2>2, <2>3, <2>4, <2>5 DEF Step, Failure
  <2>6. CASE ~suppressed[x]
    BY <1>0, <2>1, <2>2, <2>3, <2>6 DEF Step, Quiet
  <2>7. CASE x # c
    <3>1. Aims(x)' \subseteq Aims(x)
      BY <1>0, <2>1, <2>7 DEF Aims
    <3> QED  BY <1>0, <2>1, <2>2, <2>3, <3>1 DEF Step, Quiet
  <2> QED  BY <2>1, <2>5, <2>6, <2>7
<1>19. ASSUME NEW b \in Batch, BatchRecord(b)
      PROVE  Step(x)
  <2>1. /\ SameMail(x) /\ faults' = faults /\ UNCHANGED <<cur, idx, snap>>
        /\ cur[b] \in Contact /\ idx[b] \in StepNo /\ pc[b] = "record"
        /\ pc'[b] \in {"advance", "smtp"} /\ \A e \in Batch \ {b} : pc'[e] = pc[e]
        /\ \/ message' = message
           \/ /\ message[cur[b]][idx[b]] # "sent"
              /\ message' = [message EXCEPT ![cur[b]][idx[b]] = "sending"]
    BY <1>0, <1>19 DEF BatchRecord, Goto, PlaceTyped, CopyTyped, Working, SameMail, outside
  <2>2. \A i \in StepNo : message[x][i] = "sent" => message'[x][i] = "sent"
    BY <1>0, <2>1 DEF MailTyped
  <2>3. Shut(x) \subseteq Shut(x)'
    BY <2>1, <2>2 DEF Shut, Closed
  <2>4. Recording(x)' \subseteq Recording(x) /\ Aims(x)' \subseteq Aims(x)
    BY <1>0, <2>1 DEF Recording, Aims, PastCheck
  <2> QED  BY <1>0, <2>1, <2>3, <2>4 DEF Step, Quiet
<1>20. ASSUME NEW b \in Batch, BatchSend(b)
      PROVE  Step(x)
  <2> DEFINE a == cur[b]
             k == idx[b]
  <2>1. /\ a \in Contact /\ k \in StepNo /\ pc[b] = "smtp" /\ Holds(b, a)
        /\ k = NextEmail(snap[b][a].step)
        /\ UNCHANGED <<message, faults, cur, idx, snap>>
        /\ \A e \in Batch \ {b} : pc'[e] = pc[e]
        /\ pc'[b] \in {"mark", "bounce", "fail"}
    <3>1. pc[b] = "smtp" /\ UNCHANGED <<message, faults, cur, idx, snap>>
      BY <1>20 DEF BatchSend, mailbox
    <3>2. a \in Contact /\ k \in StepNo /\ Holds(b, a)
      BY <1>0, <3>1 DEF Holds, PlaceTyped, CopyTyped, Working
    <3>3. k = NextEmail(snap[b][a].step)
      BY <1>0, <3>1 DEF OnCourse, PastCheck
    <3>4. /\ \A e \in Batch \ {b} : pc'[e] = pc[e]
          /\ pc'[b] \in {"mark", "bounce", "fail"}
      BY <1>0, <1>20 DEF BatchSend, Goto, PlaceTyped
    <3> QED  BY <3>1, <3>2, <3>3, <3>4
  <2>2. Shut(x) \subseteq Shut(x)'
    BY <1>0, <2>1 DEF Shut, Closed
  <2>3. Recording(x)' = Recording(x) /\ Aims(x)' \subseteq Aims(x)
    BY <1>0, <2>1 DEF Recording, Aims, PastCheck
  <2>4. CASE SameMail(x)
    BY <1>0, <2>1, <2>2, <2>3, <2>4 DEF Step, Quiet
  <2>5. CASE ~SameMail(x)
    <3>1. Deliver(a, k) /\ pc'[b] \in {"mark", "fail"}
      BY <1>0, <2>1, <2>5, <1>20 DEF BatchSend, Goto, PlaceTyped, SameMail
    <3>2. x = a
      BY <1>0, <2>1, <2>5, <3>1 DEF Deliver, SameMail, OutsideTyped
    <3>3. /\ \A i \in StepNo \ {k} : delivered'[x][i] = delivered[x][i]
          /\ late'[x] = IF suppressed[x] THEN late[x] + 1 ELSE late[x]
      BY <1>0, <2>1, <3>1, <3>2, Delivery DEF Deliver, OutsideTyped
    <3>4. ~Final(x) /\ k \in Aims(x) /\ k \notin Shut(x)
      BY <1>0, <2>1, <3>2 DEF Final, Aims, PastCheck, Shut, Closed, Unsent, OneSender, Holds
    <3>5. k \in Shut(x)'
      BY <2>1, <3>1, <3>2 DEF Shut, Closed
    <3> QED  BY <2>1, <2>2, <2>3, <3>3, <3>4, <3>5 DEF Step, OneMail
  <2> QED  BY <2>4, <2>5
<1>21. ASSUME NEW b \in Batch, BatchBounce(b)
      PROVE  Step(x)
  <2>1. cur[b] \in Contact /\ Holds(b, cur[b])
    BY <1>0, <1>21 DEF BatchBounce, PlaceTyped, Working, Holds
  <2>2. SameMail(x) /\ UNCHANGED <<faults, message, cur, idx, snap>> /\ pc[b] = "bounce"
        /\ pc' = [pc EXCEPT ![b] = "suppress"]
    BY <1>21 DEF BatchBounce, Goto, SameMail, mailbox, outside
  <2>3. CASE x = cur[b]
    <3>1. Final(x)'
      BY <1>0, <1>21, <2>1, <2>3
      DEF BatchBounce, Goto, SetStatus, Final, OneSender, Holds, PlaceTyped, ContactTyped, Done
    <3> QED  BY <1>0, <2>2, <3>1 DEF Step, End
  <2>4. CASE x # cur[b]
    <3>1. Shut(x) \subseteq Shut(x)'
      BY <1>0, <2>2, <2>4 DEF Shut, Closed, PlaceTyped
    <3>2. Recording(x)' \subseteq Recording(x) /\ Aims(x)' \subseteq Aims(x)
      BY <1>0, <2>2, <2>4 DEF Recording, Aims, PastCheck, PlaceTyped
    <3> QED  BY <1>0, <2>2, <3>1, <3>2 DEF Step, Quiet
  <2> QED  BY <2>3, <2>4
<1>22. ASSUME NEW b \in Batch, BatchSuppress(b)
      PROVE  Step(x)
  <2>1. /\ SameMail(x) /\ UNCHANGED <<faults, cur, idx, snap>>
        /\ cur[b] \in Contact /\ idx[b] \in StepNo
        /\ pc[b] = "suppress" /\ pc' = [pc EXCEPT ![b] = "pick"]
        /\ message' = [message EXCEPT ![cur[b]][idx[b]] = "bounced"]
    BY <1>0, <1>22 DEF BatchSuppress, Goto, PlaceTyped, CopyTyped, Working, SameMail, outside
  <2>2. Aims(x)' \subseteq Aims(x)
    BY <1>0, <2>1 DEF Aims, PastCheck, PlaceTyped
  <2>3. CASE cur[b] = x
    <3>1. b \in Recording(x) /\ Recording(x)' \subseteq Recording(x) \ {b}
      BY <1>0, <2>1, <2>3 DEF Recording, PlaceTyped
    <3>2. \A i \in StepNo \ {idx[b]} : message'[x][i] = message[x][i]
      BY <1>0, <2>1, <2>3 DEF MailTyped
    <3>3. Shut(x) \ {idx[b]} \subseteq Shut(x)'
      BY <1>0, <2>1, <3>2 DEF Shut, Closed, PlaceTyped
    <3> QED  BY <2>1, <2>2, <3>1, <3>3 DEF Step, Bounce
  <2>4. CASE cur[b] # x
    <3>1. message'[x] = message[x]
      BY <1>0, <2>1, <2>4 DEF MailTyped
    <3>2. Shut(x) \subseteq Shut(x)' /\ Recording(x)' \subseteq Recording(x)
      BY <1>0, <2>1, <3>1 DEF Shut, Closed, Recording, PlaceTyped
    <3> QED  BY <1>0, <2>1, <2>2, <3>2 DEF Step, Quiet
  <2> QED  BY <2>3, <2>4
<1>23. ASSUME NEW b \in Batch, BatchFail(b)
      PROVE  Step(x)
  <2>1. /\ SameMail(x) /\ UNCHANGED <<faults, cur, idx, snap>>
        /\ cur[b] \in Contact /\ idx[b] \in StepNo /\ Holds(b, cur[b])
        /\ pc' = [pc EXCEPT ![b] = "pick"] /\ pc[b] = "fail"
        /\ message' = [message EXCEPT ![cur[b]][idx[b]] = "failed"]
    BY <1>0, <1>23 DEF BatchFail, Goto, PlaceTyped, CopyTyped, Working, Holds, SameMail, outside
  <2>2. CASE cur[b] = x
    <3>1. Final(x)'
      BY <1>0, <1>23, <2>1, <2>2
      DEF BatchFail, SetStatus, Final, OneSender, Holds, PlaceTyped, ContactTyped, Done
    <3> QED  BY <1>0, <2>1, <3>1 DEF Step, End
  <2>3. CASE cur[b] # x
    <3>1. message'[x] = message[x]
      BY <1>0, <2>1, <2>3 DEF MailTyped
    <3>2. Shut(x) \subseteq Shut(x)'
      BY <1>0, <2>1, <2>3, <3>1 DEF Shut, Closed, PlaceTyped
    <3>3. Recording(x)' \subseteq Recording(x) /\ Aims(x)' \subseteq Aims(x)
      BY <1>0, <2>1, <2>3 DEF Recording, Aims, PastCheck, PlaceTyped
    <3> QED  BY <1>0, <2>1, <3>2, <3>3 DEF Step, Quiet
  <2> QED  BY <2>2, <2>3
<1>24. ASSUME NEW b \in Batch, BatchMark(b)
      PROVE  Step(x)
  <2>1. /\ SameMail(x) /\ UNCHANGED <<faults, cur, idx, snap>>
        /\ cur[b] \in Contact /\ idx[b] \in StepNo
        /\ pc' = [pc EXCEPT ![b] = "advance"] /\ pc[b] = "mark"
        /\ message' = [message EXCEPT ![cur[b]][idx[b]] = "sent"]
    BY <1>0, <1>24 DEF BatchMark, Goto, PlaceTyped, CopyTyped, Working, SameMail, outside
  <2>2. /\ \A i \in StepNo : message[x][i] = "sent" => message'[x][i] = "sent"
        /\ cur[b] = x => message'[x][idx[b]] = "sent"
    BY <1>0, <2>1 DEF MailTyped
  <2>3. Shut(x) \subseteq Shut(x)'
    BY <1>0, <2>1, <2>2 DEF Shut, Closed, PlaceTyped
  <2>4. Recording(x)' \subseteq Recording(x) /\ Aims(x)' \subseteq Aims(x)
    BY <1>0, <2>1 DEF Recording, Aims, PastCheck, PlaceTyped
  <2> QED  BY <1>0, <2>1, <2>3, <2>4 DEF Step, Quiet
<1>25. ASSUME NEW b \in Batch, BatchWriteError(b)
      PROVE  Step(x)
  <2>1. /\ SameMail(x) /\ faults' = faults + 1 /\ UNCHANGED <<message, cur, idx, snap>>
        /\ \A e \in Batch \ {b} : pc'[e] = pc[e]
        /\ pc'[b] \notin PastCheck
        /\ pc'[b] = "suppress" => pc[b] = "bounce"
        /\ pc[b] \in {"mark", "fail"} => pc'[b] \in {"advance", "pick"}
    BY <1>0, <1>25 DEF BatchWriteError, Goto, Fault, PlaceTyped, PastCheck, SameMail, mailbox,
       outside
  <2>2. Aims(x)' \subseteq Aims(x)
    BY <1>0, <2>1 DEF Aims
  <2>3. CASE pc[b] = "bounce"
    <3>1. Recording(x)' \subseteq Recording(x) \cup {b} /\ Shut(x) \subseteq Shut(x)'
      BY <1>0, <2>1, <2>3 DEF Recording, Shut, Closed
    <3> QED  BY <2>1, <2>2, <3>1 DEF Step, Failure
  <2>4. CASE pc[b] # "bounce"
    <3>1. Recording(x)' \subseteq Recording(x) /\ Shut(x) \ {idx[b]} \subseteq Shut(x)'
      BY <1>0, <2>1, <2>4 DEF Recording, Shut, Closed
    <3> QED  BY <2>1, <2>2, <3>1 DEF Step, Failure
  <2> QED  BY <2>3, <2>4
<1>26. ASSUME NEW b \in Batch, BatchLost(b)
      PROVE  Step(x)
  <2>1. /\ SameMail(x) /\ faults' = faults + 1 /\ message' = message
        /\ pc'[b] = "idle"
        /\ \A e \in Batch \ {b} : /\ pc'[e] = pc[e] /\ cur'[e] = cur[e] /\ idx'[e] = idx[e]
                                  /\ snap'[e] = snap[e]
    BY <1>0, <1>26 DEF BatchLost, Goto, Forget, Fault, PlaceTyped, CopyTyped, SameMail, mailbox,
       outside
  <2>2. Aims(x)' \subseteq Aims(x) /\ Recording(x)' \subseteq Recording(x)
    BY <1>0, <2>1 DEF Aims, Recording, PastCheck
  <2>3. Shut(x) \ {idx[b]} \subseteq Shut(x)'
    BY <1>0, <2>1 DEF Shut, Closed
  <2> QED  BY <2>1, <2>2, <2>3 DEF Step, Failure
<1>27. CASE UNCHANGED <<message, delivered, late, suppressed, pc, cur, idx, snap, faults>>
  BY <1>0, <1>27 DEF Step, Quiet, SameMail, Shut, Closed, Recording, Aims
<1> QED
  BY <1>1, <1>2, <1>3, <1>4, <1>5, <1>6, <1>7, <1>8, <1>9, <1>10, <1>11, <1>12, <1>13, <1>14,
     <1>15, <1>16, <1>17, <1>18, <1>19, <1>20, <1>21, <1>22, <1>23, <1>24, <1>25, <1>26, <1>27
  DEF Next, UserStep, ContactStep, BatchStep, vars, camp, contact, address, mailbox,
      outside, batch, LaunchRead, LaunchUpdate, HandleCampaignPause, MoveCampaign,
      HandleCampaignCancel, OutreachTick, UnsubNotFound, DaysPass, Abandon, HourPasses

\* An address stays suppressed.
LEMMA SuppressedStays ==
    ASSUME Typed, [Next]_vars, NEW x \in Contact, suppressed[x]
    PROVE  suppressed'[x]
<1>0. suppressed \in [Contact -> BOOLEAN] /\ PlaceTyped
  BY DEF Typed, AddressTyped
<1>1. ASSUME NEW c \in Contact, UnsubSuppress(c)
      PROVE  suppressed'[x]
  BY <1>0, <1>1 DEF UnsubSuppress, Fault
<1>2. ASSUME NEW b \in Batch, BatchSuppress(b)
      PROVE  suppressed'[x]
  BY <1>0, <1>2 DEF BatchSuppress
<1>3. CASE UNCHANGED suppressed
  BY <1>3
<1>4. ASSUME NEW b \in Batch, BatchStart(b) \/ BatchStep(b) \/ BatchLost(b), ~BatchSuppress(b)
      PROVE  UNCHANGED suppressed
  BY <1>4
  DEF BatchStep, address, BatchStart, BatchRequeue, BatchSelect, BatchDrained, BatchSkip,
      BatchPick, BatchLimited, BatchWalk, BatchReply, BatchClaim, BatchRecord, BatchRecordError,
      BatchSend, BatchBounce, BatchFail, BatchMark, BatchAdvance, BatchWriteError, BatchCount,
      BatchComplete, BatchLost
<1>5. ASSUME NEW c \in Contact, ContactStep(c) \/ DaysPass(c) \/ Abandon(c), ~UnsubSuppress(c)
      PROVE  UNCHANGED suppressed
  BY <1>5
  DEF ContactStep, address, HandleInbound, UnsubContact, UnsubNotFound, DaysPass, Abandon
<1>6. CASE UserStep \/ OutreachTick \/ HourPasses \/ UNCHANGED vars
  BY <1>3, <1>6
  DEF UserStep, vars, address, LaunchRead, LaunchUpdate, LaunchAdd, HandleCampaignPause,
      MoveCampaign, HandleCampaignCancel, OutreachTick, HourPasses
<1> QED  BY <1>1, <1>2, <1>3, <1>4, <1>5, <1>6 DEF Next

\* A batch keeps its course.
LEMMA OnCourseStep == Typed /\ OnCourse /\ [Next]_vars => OnCourse'
<1> SUFFICES ASSUME Typed, OnCourse, [Next]_vars, NEW e \in Batch,
                    pc'[e] \in PastCheck \ {"limit"}
             PROVE  idx'[e] = NextEmail(snap'[e][cur'[e]].step)
  BY DEF OnCourse
<1>0. PlaceTyped /\ CopyTyped
  BY DEF Typed
<1>1. CASE UNCHANGED <<snap, cur, idx>> /\ (pc'[e] = pc[e] \/ pc[e] \in PastCheck \ {"limit"})
  BY <1>1 DEF OnCourse
<1>2. ASSUME NEW b \in Batch, BatchSelect(b) \/ BatchDrained(b) \/ BatchLost(b)
      PROVE  e # b /\ pc'[e] = pc[e] /\ snap'[e] = snap[e] /\ cur'[e] = cur[e] /\ idx'[e] = idx[e]
  BY <1>0, <1>2 DEF BatchSelect, BatchDrained, BatchLost, Goto, Forget, PlaceTyped, CopyTyped,
     PastCheck
<1>3. ASSUME NEW b \in Batch, NEW c \in Contact, BatchPick(b, c)
      PROVE  e # b /\ pc'[e] = pc[e] /\ snap'[e] = snap[e] /\ cur'[e] = cur[e] /\ idx'[e] = idx[e]
  BY <1>0, <1>3 DEF BatchPick, Goto, PlaceTyped, CopyTyped, PastCheck
<1>4. ASSUME NEW b \in Batch, BatchWalk(b)
      PROVE  idx'[e] = NextEmail(snap'[e][cur'[e]].step)
  <2>1. CASE e = b
    BY <1>0, <1>4, <2>1 DEF BatchWalk, Goto, PlaceTyped, CopyTyped, PastCheck
  <2>2. CASE e # b
    BY <1>0, <1>4, <2>2 DEF BatchWalk, Goto, PlaceTyped, CopyTyped, OnCourse
  <2> QED  BY <2>1, <2>2
<1>5. ASSUME NEW b \in Batch, BatchReply(b) \/ BatchClaim(b) \/ BatchRecord(b)
      PROVE  UNCHANGED <<snap, cur, idx>> /\ (pc'[e] = pc[e] \/ pc[e] \in PastCheck \ {"limit"})
  BY <1>0, <1>5 DEF BatchReply, BatchClaim, BatchRecord, Goto, PlaceTyped, PastCheck
<1>6. ASSUME NEW b \in Batch,
             BatchStart(b) \/ BatchRequeue(b) \/ BatchLimited(b) \/ BatchRecordError(b)
             \/ BatchSend(b) \/ BatchBounce(b) \/ BatchSuppress(b) \/ BatchFail(b)
             \/ BatchMark(b) \/ BatchAdvance(b) \/ BatchWriteError(b) \/ BatchCount(b)
             \/ BatchComplete(b) \/ \E c \in Contact : BatchSkip(b, c)
      PROVE  UNCHANGED <<snap, cur, idx>> /\ pc'[e] = pc[e]
  BY <1>0, <1>6 DEF BatchStart, BatchRequeue, BatchLimited, BatchRecordError, BatchSend,
     BatchBounce, BatchSuppress, BatchFail, BatchMark, BatchAdvance, BatchWriteError,
     BatchCount, BatchComplete, BatchSkip, Goto, PlaceTyped, PastCheck, batch
<1>7. CASE UNCHANGED batch
  BY <1>1, <1>7 DEF batch
<1> QED
  BY <1>1, <1>2, <1>3, <1>4, <1>5, <1>6, <1>7
  DEF OnCourse, Next, UserStep, ContactStep, BatchStep, vars, LaunchRead, LaunchUpdate, LaunchAdd,
      HandleCampaignPause, MoveCampaign, HandleCampaignCancel, OutreachTick, HandleInbound,
      UnsubSuppress, UnsubContact, UnsubNotFound, DaysPass, Abandon, HourPasses

\* A step that a batch is going to is an email, and what comes before it has
\* been mailed ...
LEMMA AimFact ==
    ASSUME Typed, Ordered, NEW c \in Contact, NEW i \in Aims(c)
    PROVE  i \in StepNo /\ Steps[i] = "email" /\ Covered(delivered[c], i)
<1>1. PICK b \in Batch : i = NextEmail(snap[b][c].step)
  BY DEF Aims
<1>2. snap[b][c].step \in StepNo /\ Covered(delivered[c], snap[b][c].step)
  BY DEF Typed, CopyTyped, Ordered
<1>3. i \in StepNo /\ i # Len(Steps) + 1
  BY StepsFact DEF Aims, StepNo
<1>4. snap[b][c].step \in 1..(Len(Steps) + 1)
  BY <1>2, StepsFact DEF StepNo
<1> QED  BY <1>1, <1>2, <1>3, <1>4, CoveredTo, NextEmailFact

\* ... so one of them at most was never mailed.
LEMMA OneFirstMail ==
    ASSUME Typed, Ordered, NEW c \in Contact
    PROVE  \A i, j \in Aims(c) \ Mailed(c) : i = j
<1>1. (\A i \in StepNo : i \in Nat) /\ delivered \in [Contact -> [StepNo -> Nat]]
  <2>1. \A i \in StepNo : i \in Nat
    BY DEF StepNo
  <2> QED  BY <2>1 DEF Typed, OutsideTyped
<1>2. ASSUME NEW i \in Aims(c) \ Mailed(c), NEW j \in Aims(c) \ Mailed(c)
      PROVE  ~(i < j)
  <2>1. i \in StepNo /\ Steps[i] = "email" /\ j \in StepNo /\ Covered(delivered[c], j)
    BY AimFact
  <2>2. delivered[c][i] \in Nat /\ ~(delivered[c][i] > 0)
    BY <1>1, <2>1 DEF Mailed
  <2> QED  BY <2>1, <2>2 DEF Covered
<1>3. ASSUME NEW i \in Aims(c) \ Mailed(c), NEW j \in Aims(c) \ Mailed(c)
      PROVE  i = j
  <2>1. i \in Nat /\ j \in Nat
    BY <1>1, AimFact
  <2>2. ~(i < j) /\ ~(j < i)
    BY <1>2
  <2> QED  BY <2>1, <2>2
<1> QED  BY <1>3

\* So what can be mailed is what is open again, and one more.
LEMMA RiskBound ==
    Typed /\ Ordered
    => \A c \in Contact : Cardinality(AtRisk(c)) <= Cardinality(Holes(c)) + 1
<1> SUFFICES ASSUME Typed, Ordered, NEW c \in Contact
             PROVE  Cardinality(AtRisk(c)) <= Cardinality(Holes(c)) + 1
  OBVIOUS
<1>1. IsFiniteSet(Holes(c))
  BY LateSets, StepSets
<1>2. \E k : AtRisk(c) \subseteq Holes(c) \cup {k}
  <2>1. CASE \E k : k \in Aims(c) \ Mailed(c)
    BY <2>1, OneFirstMail DEF AtRisk, Holes
  <2>2. CASE ~ \E k : k \in Aims(c) \ Mailed(c)
    BY <2>2 DEF AtRisk, Holes
  <2> QED  BY <2>1, <2>2
<1> QED  BY <1>1, <1>2, Growth

LEMMA RiskBoundNext ==
    (Typed /\ Ordered)'
    => (\A c \in Contact : Cardinality(AtRisk(c)) <= Cardinality(Holes(c)) + 1)'
  BY RiskBound, PTL

\* Before the first mail nothing is open, aimed at or recorded ...
LEMMA LateInit == Init => OnCourse /\ HolesPaid /\ LatePaid
<1> SUFFICES ASSUME Init
             PROVE  OnCourse /\ HolesPaid /\ LatePaid
  OBVIOUS
<1>1. OnCourse
  BY DEF Init, OnCourse, PastCheck
<1>2. ASSUME NEW c \in Contact
      PROVE  Holes(c) = {} /\ Recording(c) = {}
  BY DEF Init, Holes, Mailed, Recording
<1>3. faults = 0 /\ \A c \in Contact : late[c] = 0 /\ ~suppressed[c]
  BY DEF Init
<1> QED  BY <1>1, <1>2, <1>3, FS_EmptySet DEF HolesPaid, LatePaid

\* ... every step that opens one is a fault, or a bounce that was one ...
LEMMA HolesStep ==
    ASSUME Typed, Typed', HolesPaid, [Next]_vars, NEW x \in Contact,
           InTime(x), Step(x)
    PROVE  Final(x)' \/ Cardinality(Holes(x)') + Cardinality(Recording(x)') <= faults'
<1>0. faults \in Nat /\ faults' \in Nat
  BY FaultsFact DEF Typed
<1>1. CASE Final(x)
  BY <1>1, FinalStays
<1>2. CASE End(x)
  BY <1>2 DEF End
<1> SUFFICES ASSUME ~Final(x), ~End(x)
             PROVE  Cardinality(Holes(x)') + Cardinality(Recording(x)') <= faults'
  BY <1>1, <1>2
<1>3. Cardinality(Holes(x)) + Cardinality(Recording(x)) <= faults
  BY DEF HolesPaid
<1>4. /\ IsFiniteSet(Holes(x)) /\ IsFiniteSet(Recording(x))
      /\ Cardinality(Holes(x)) \in Nat /\ Cardinality(Holes(x)') \in Nat
      /\ Cardinality(Recording(x)) \in Nat /\ Cardinality(Recording(x)') \in Nat
  BY LateSets, StepSets, BatchSets
<1>5. CASE SameMail(x)
  <2>1. Mailed(x)' = Mailed(x)
    BY <1>5 DEF SameMail, Mailed
  <2>2. /\ Shut(x) \subseteq Shut(x)' => Holes(x)' \subseteq Holes(x)
        /\ \A k : Shut(x) \ {k} \subseteq Shut(x)' => Holes(x)' \subseteq Holes(x) \cup {k}
    BY <2>1 DEF Holes
  <2>3. CASE Quiet(x)
    <3>1. Holes(x)' \subseteq Holes(x) /\ Recording(x)' \subseteq Recording(x)
          /\ faults' >= faults
      BY <2>2, <2>3 DEF Quiet
    <3>2. /\ Cardinality(Holes(x)') <= Cardinality(Holes(x))
          /\ Cardinality(Recording(x)') <= Cardinality(Recording(x))
      BY <1>4, <3>1, Growth
    <3> QED  BY <1>0, <1>3, <1>4, <3>1, <3>2
  <2>4. CASE Failure(x)
    <3>1. \/ /\ Cardinality(Holes(x)') <= Cardinality(Holes(x)) + 1
             /\ Cardinality(Recording(x)') <= Cardinality(Recording(x))
          \/ /\ Cardinality(Holes(x)') <= Cardinality(Holes(x))
             /\ Cardinality(Recording(x)') <= Cardinality(Recording(x)) + 1
      BY <1>4, <2>2, <2>4, Growth DEF Failure
    <3>2. faults' = faults + 1
      BY <2>4 DEF Failure
    <3> QED  BY <1>0, <1>3, <1>4, <3>1, <3>2
  <2>5. CASE Bounce(x)
    <3>1. /\ Cardinality(Holes(x)') <= Cardinality(Holes(x)) + 1
          /\ Cardinality(Recording(x)') <= Cardinality(Recording(x)) - 1
      BY <1>4, <2>2, <2>5, Growth DEF Bounce
    <3>2. faults' = faults
      BY <2>5 DEF Bounce
    <3> QED  BY <1>0, <1>3, <1>4, <3>1, <3>2
  <2>6. CASE OneMail(x)
    <3>1. Holes(x)' \subseteq Holes(x) /\ Recording(x)' \subseteq Recording(x) /\ faults' = faults
      BY <2>2, <2>6 DEF OneMail
    <3>2. /\ Cardinality(Holes(x)') <= Cardinality(Holes(x))
          /\ Cardinality(Recording(x)') <= Cardinality(Recording(x))
      BY <1>4, <3>1, Growth
    <3> QED  BY <1>0, <1>3, <1>4, <3>1, <3>2
  <2> QED  BY <2>3, <2>4, <2>5, <2>6 DEF Step
<1>6. CASE ~SameMail(x)
  <2>1. OneMail(x)
    BY <1>6 DEF Step, Quiet, Failure, Bounce
  <2>2. PICK k \in Aims(x) : /\ k \in Shut(x)'
                             /\ \A i \in StepNo \ {k} : delivered'[x][i] = delivered[x][i]
    BY <2>1 DEF OneMail
  <2>3. Holes(x)' \subseteq Holes(x) /\ Recording(x)' \subseteq Recording(x) /\ faults' = faults
    BY <2>1, <2>2 DEF OneMail, Holes, Mailed
  <2>4. /\ Cardinality(Holes(x)') <= Cardinality(Holes(x))
        /\ Cardinality(Recording(x)') <= Cardinality(Recording(x))
    BY <1>4, <2>3, Growth
  <2> QED  BY <1>0, <1>3, <1>4, <2>3, <2>4
<1> QED  BY <1>5, <1>6

\* ... and each late mail was one of those that could follow.
LEMMA LateStep ==
    ASSUME Typed, Typed', LatePaid, HolesPaid', Ordered', [Next]_vars,
           NEW x \in Contact, InTime(x), InTime(x)', Step(x)
    PROVE  /\ late'[x] <= 1 + faults'
           /\ ~suppressed'[x] => late'[x] = 0
           /\ suppressed'[x] =>
                 \/ Final(x)'
                 \/ late'[x] + Cardinality(AtRisk(x)') + Cardinality(Recording(x)') <= 1 + faults'
<1>0. /\ faults \in Nat /\ faults' \in Nat /\ faults' >= faults
      /\ late[x] \in Nat /\ late'[x] \in Nat
      /\ late[x] <= 1 + faults /\ (~suppressed[x] => late[x] = 0)
  <2>1. faults' >= faults
    BY FaultsFact DEF Typed, Step, Quiet, Failure, Bounce, OneMail, End
  <2> QED  BY <2>1, FaultsFact DEF Typed, OutsideTyped, LatePaid
<1>1. /\ IsFiniteSet(AtRisk(x)) /\ IsFiniteSet(Recording(x))
      /\ Cardinality(AtRisk(x)) \in Nat /\ Cardinality(AtRisk(x)') \in Nat
      /\ Cardinality(Recording(x)) \in Nat /\ Cardinality(Recording(x)') \in Nat
      /\ Cardinality(Holes(x)') \in Nat
  BY LateSets, StepSets, BatchSets
<1>2. CASE ~suppressed[x]
  <2>1. late'[x] = 0
    BY <1>0, <1>2 DEF Step, Quiet, Failure, Bounce, OneMail, End, SameMail
  <2>2. Cardinality(AtRisk(x)') <= Cardinality(Holes(x)') + 1
    BY RiskBoundNext
  <2>3. Final(x)' \/ Cardinality(Holes(x)') + Cardinality(Recording(x)') <= faults'
    BY DEF HolesPaid
  <2>4. Final(x)' \/ Cardinality(AtRisk(x)') + Cardinality(Recording(x)') <= 1 + faults'
    BY <1>0, <1>1, <2>2, <2>3
  <2>5. Final(x)' \/ late'[x] + Cardinality(AtRisk(x)') + Cardinality(Recording(x)') <= 1 + faults'
    BY <1>1, <2>1, <2>4
  <2>6. late'[x] <= 1 + faults'
    <3>1. \A n \in Nat : 0 <= 1 + n
      OBVIOUS
    <3>2. 0 <= 1 + faults'
      BY <1>0, <3>1
    <3> QED  BY <2>1, <3>2
  <2> QED  BY <2>1, <2>5, <2>6
<1>3. CASE suppressed[x] /\ (Final(x) \/ End(x))
  <2>1. Final(x)'
    BY <1>3, FinalStays DEF End
  <2>2. late'[x] = late[x]
    BY <1>3 DEF Step, Quiet, Failure, Bounce, OneMail, End, SameMail
  <2> QED  BY <1>0, <1>3, <2>1, <2>2, SuppressedStays
<1>4. CASE suppressed[x] /\ ~Final(x) /\ ~End(x)
  <2>1. late[x] + Cardinality(AtRisk(x)) + Cardinality(Recording(x)) <= 1 + faults
    BY <1>4 DEF LatePaid
  <2>2. suppressed'[x]
    BY <1>4, SuppressedStays
  <2>3. /\ Shut(x) \subseteq Shut(x)' /\ Aims(x)' \subseteq Aims(x) =>
              AtRisk(x)' \subseteq AtRisk(x)
        /\ \A k : Shut(x) \ {k} \subseteq Shut(x)' /\ Aims(x)' \subseteq Aims(x) =>
              AtRisk(x)' \subseteq AtRisk(x) \cup {k}
        /\ \A k : Shut(x) \subseteq Shut(x)' /\ Aims(x)' \subseteq Aims(x) \cup {k} =>
              AtRisk(x)' \subseteq AtRisk(x) \cup {k}
        /\ \A k : Shut(x) \subseteq Shut(x)' /\ Aims(x)' \subseteq Aims(x) /\ k \in Shut(x)' =>
              AtRisk(x)' \subseteq AtRisk(x) \ {k}
    BY DEF AtRisk
  <2>4. CASE Quiet(x)
    <3>1. AtRisk(x)' \subseteq AtRisk(x) /\ Recording(x)' \subseteq Recording(x)
          /\ late'[x] = late[x]
      BY <1>4, <2>3, <2>4 DEF Quiet, SameMail
    <3>2. /\ Cardinality(AtRisk(x)') <= Cardinality(AtRisk(x))
          /\ Cardinality(Recording(x)') <= Cardinality(Recording(x))
      BY <1>1, <3>1, Growth
    <3>3. late'[x] + Cardinality(AtRisk(x)') + Cardinality(Recording(x)') <= 1 + faults'
      BY <1>0, <1>1, <2>1, <3>1, <3>2
    <3> QED  BY <1>0, <1>1, <2>2, <3>3
  <2>5. CASE Failure(x)
    <3>1. \/ /\ Cardinality(AtRisk(x)') <= Cardinality(AtRisk(x)) + 1
             /\ Cardinality(Recording(x)') <= Cardinality(Recording(x))
          \/ /\ Cardinality(AtRisk(x)') <= Cardinality(AtRisk(x))
             /\ Cardinality(Recording(x)') <= Cardinality(Recording(x)) + 1
      BY <1>1, <2>3, <2>5, Growth DEF Failure
    <3>2. faults' = faults + 1 /\ late'[x] = late[x]
      BY <2>5 DEF Failure, SameMail
    <3>3. late'[x] + Cardinality(AtRisk(x)') + Cardinality(Recording(x)') <= 1 + faults'
      BY <1>0, <1>1, <2>1, <3>1, <3>2
    <3> QED  BY <1>0, <1>1, <2>2, <3>3
  <2>6. CASE Bounce(x)
    <3>1. /\ Cardinality(AtRisk(x)') <= Cardinality(AtRisk(x)) + 1
          /\ Cardinality(Recording(x)') <= Cardinality(Recording(x)) - 1
      BY <1>1, <2>3, <2>6, Growth DEF Bounce
    <3>2. faults' = faults /\ late'[x] = late[x]
      BY <2>6 DEF Bounce, SameMail
    <3>3. late'[x] + Cardinality(AtRisk(x)') + Cardinality(Recording(x)') <= 1 + faults'
      BY <1>0, <1>1, <2>1, <3>1, <3>2
    <3> QED  BY <1>0, <1>1, <2>2, <3>3
  <2>7. CASE OneMail(x)
    <3>1. PICK k \in Aims(x) : k \notin Shut(x) /\ k \in Shut(x)'
      BY <2>7 DEF OneMail
    <3>2. k \in AtRisk(x) /\ AtRisk(x)' \subseteq AtRisk(x) \ {k}
          /\ Recording(x)' \subseteq Recording(x)
      BY <2>3, <2>7, <3>1 DEF OneMail, AtRisk
    <3>3. /\ Cardinality(AtRisk(x)') <= Cardinality(AtRisk(x)) - 1
          /\ Cardinality(Recording(x)') <= Cardinality(Recording(x))
      BY <1>1, <3>2, Growth
    <3>4. faults' = faults /\ late'[x] = late[x] + 1
      BY <1>4, <2>7 DEF OneMail
    <3>5. late'[x] + Cardinality(AtRisk(x)') + Cardinality(Recording(x)') <= 1 + faults'
      BY <1>0, <1>1, <2>1, <3>3, <3>4
    <3> QED  BY <1>0, <1>1, <2>2, <3>5
  <2> QED  BY <1>4, <2>4, <2>5, <2>6, <2>7 DEF Step
<1> QED  BY <1>2, <1>3, <1>4

-----------------------------------------------------------------------------
(* What a contact may expect.                                              *)

\* At the start it is what the contract says.
LEMMA ContractInit == Init => Contract!Init
  BY DEF Init, Contract!Init, StepNo, Contract!StepNo, Final, InTime, Done

\* A step that mails and suppresses nobody and is about one contact at most.
Plain ==
    /\ UNCHANGED <<delivered, late, suppressed>>
    /\ faults' \in {faults, faults + 1}
    /\ \E a : \A y \in Contact \ {a} : Final(y)' <=> Final(y)

\* The row of a contact does not come to its end, or leave it.
SameEnd(y) == status'[y] \in Done <=> status[y] \in Done

\* Nothing ends but for the contact that a batch lets go of or writes to.
LEMMA FinalFrame ==
    ASSUME NEW b \in Batch, NEW a,
           \A e \in Batch \ {b} : pc'[e] = pc[e] /\ cur'[e] = cur[e],
           \A y \in Contact \ {a} : SameEnd(y),
           \A y \in Contact \ {a} : ~Holds(b, y) /\ ~Holds(b, y)'
    PROVE  \E k : \A y \in Contact \ {k} : Final(y)' <=> Final(y)
<1>1. ASSUME NEW y \in Contact \ {a}
      PROVE  Final(y)' <=> Final(y)
  <2>1. \A e \in Batch : Holds(e, y)' <=> Holds(e, y)
    BY DEF Holds
  <2> QED  BY <2>1 DEF Final, SameEnd
<1> QED  BY <1>1

\* For whom the campaign is over, after such a step.
LEMMA SameOver ==
    ASSUME \A y \in Contact : Final(y)' <=> Final(y)
    PROVE  [c \in Contact |-> Final(c)]' = [c \in Contact |-> Final(c)]
<1>1. ASSUME NEW y \in Contact
      PROVE  Final(y)' = Final(y)
  BY DEF Final
<1> QED  BY <1>1

LEMMA OneOver ==
    ASSUME NEW a \in Contact, Final(a)', \A y \in Contact \ {a} : Final(y)' <=> Final(y)
    PROVE  [c \in Contact |-> Final(c)]' = [[c \in Contact |-> Final(c)] EXCEPT ![a] = TRUE]
<1>1. ASSUME NEW y \in Contact
      PROVE  Final(y)' = IF y = a THEN TRUE ELSE Final(y)
  BY DEF Final
<1>2. [[c \in Contact |-> Final(c)] EXCEPT ![a] = TRUE]
      = [y \in Contact |-> IF y = a THEN TRUE ELSE Final(y)]
  OBVIOUS
<1> QED  BY <1>1, <1>2

\* Whose claims were outlasted, after a step that outlasts none.
LEMMA SameLapses ==
    ASSUME UNCHANGED overruns
    PROVE  [c \in Contact |-> ~InTime(c)]' = [c \in Contact |-> ~InTime(c)]
  BY DEF InTime

\* Such a step ends the campaign for the contact, or is a failure, or both, or
\* nothing the contract knows of.
LEMMA PlainStep ==
    ASSUME Typed, [Next]_vars, Plain, UNCHANGED overruns
    PROVE  Contract!Next \/ UNCHANGED Contract!vars
<1> DEFINE Over == [c \in Contact |-> Final(c)]
<1>0. [c \in Contact |-> ~InTime(c)]' = [c \in Contact |-> ~InTime(c)]
  BY SameLapses
<1>1. PICK a : \A y \in Contact \ {a} : Final(y)' <=> Final(y)
  BY DEF Plain
<1>2. CASE \A y \in Contact : Final(y)' <=> Final(y)
  <2>1. Over' = Over
    BY <1>2, SameOver
  <2>2. CASE faults' = faults
    BY <1>0, <2>1, <2>2 DEF Plain, Contract!vars
  <2>3. CASE faults' = faults + 1
    <3>1. Contract!Fail
      BY <1>0, <2>1, <2>3 DEF Plain, Contract!Fail
    <3> QED  BY <3>1 DEF Contract!Next
  <2> QED  BY <2>2, <2>3 DEF Plain
<1>3. CASE ~ \A y \in Contact : Final(y)' <=> Final(y)
  <2>1. a \in Contact /\ ~Final(a) /\ Final(a)'
    BY <1>1, <1>3, FinalStays
  <2>2. Over' = [Over EXCEPT ![a] = TRUE]
    BY <1>1, <2>1, OneOver
  <2>3. Contract!End(a)
    BY <1>0, <2>1, <2>2 DEF Plain, Contract!End, Contract!MayFail
  <2> QED  BY <2>1, <2>3 DEF Contract!Next
<1> QED  BY <1>2, <1>3

\* All steps are plain but for the relay's and the two that suppress.
LEMMA PlainSteps ==
    ASSUME Typed, [Next]_vars,
           ~ \E b \in Batch : BatchSend(b) \/ BatchSuppress(b),
           ~ \E c \in Contact : UnsubSuppress(c)
    PROVE  Plain
<1>0. ContactTyped /\ PlaceTyped /\ CopyTyped
  BY DEF Typed
<1>1. ASSUME NEW b \in Batch, BatchStart(b)
      PROVE  Plain
  <2>1. UNCHANGED <<delivered, late, suppressed>> /\ faults' \in {faults, faults + 1}
    BY <1>0, <1>1 DEF BatchStart, address, outside
  <2>2. \A e \in Batch \ {b} : pc'[e] = pc[e] /\ cur'[e] = cur[e]
    BY <1>0, <1>1 DEF BatchStart, Goto, PlaceTyped, batch
  <2>3. \A y \in Contact \ {cur[b]} : SameEnd(y)
    BY <1>0, <1>1 DEF BatchStart, SameEnd, ContactTyped, contact, Done
  <2>4. \A y \in Contact \ {cur[b]} : ~Holds(b, y) /\ ~Holds(b, y)'
    BY <1>0, <1>1 DEF BatchStart, Goto, Holds, PlaceTyped, batch
  <2> QED  BY <1>0, <2>1, <2>2, <2>3, <2>4, FinalFrame DEF Plain
<1>2. ASSUME NEW b \in Batch, BatchRequeue(b)
      PROVE  Plain
  <2>1. UNCHANGED <<delivered, late, suppressed>> /\ faults' \in {faults, faults + 1}
    BY <1>0, <1>2 DEF BatchRequeue, Fault, address, outside
  <2>2. \A e \in Batch \ {b} : pc'[e] = pc[e] /\ cur'[e] = cur[e]
    BY <1>0, <1>2 DEF BatchRequeue, Fault, Goto, PlaceTyped, batch
  <2>3. \A y \in Contact \ {cur[b]} : SameEnd(y)
    BY <1>0, <1>2 DEF BatchRequeue, Fault, SameEnd, ContactTyped, contact, Done
  <2>4. \A y \in Contact \ {cur[b]} : ~Holds(b, y) /\ ~Holds(b, y)'
    BY <1>0, <1>2 DEF BatchRequeue, Fault, Goto, Holds, PlaceTyped, batch
  <2> QED  BY <1>0, <2>1, <2>2, <2>3, <2>4, FinalFrame DEF Plain
<1>3. ASSUME NEW b \in Batch, BatchSelect(b)
      PROVE  Plain
  <2>1. UNCHANGED <<delivered, late, suppressed>> /\ faults' \in {faults, faults + 1}
    BY <1>0, <1>3 DEF BatchSelect, address, outside
  <2>2. \A e \in Batch \ {b} : pc'[e] = pc[e] /\ cur'[e] = cur[e]
    BY <1>0, <1>3 DEF BatchSelect, Goto, PlaceTyped, batch
  <2>3. \A y \in Contact \ {cur[b]} : SameEnd(y)
    BY <1>0, <1>3 DEF BatchSelect, SameEnd, ContactTyped, contact, Done
  <2>4. \A y \in Contact \ {cur[b]} : ~Holds(b, y) /\ ~Holds(b, y)'
    BY <1>0, <1>3 DEF BatchSelect, Goto, Holds, PlaceTyped, batch
  <2> QED  BY <1>0, <2>1, <2>2, <2>3, <2>4, FinalFrame DEF Plain
<1>4. ASSUME NEW b \in Batch, BatchDrained(b)
      PROVE  Plain
  <2>1. UNCHANGED <<delivered, late, suppressed>> /\ faults' \in {faults, faults + 1}
    BY <1>0, <1>4 DEF BatchDrained, address, outside
  <2>2. \A e \in Batch \ {b} : pc'[e] = pc[e] /\ cur'[e] = cur[e]
    BY <1>0, <1>4 DEF BatchDrained, Goto, Forget, PlaceTyped, batch
  <2>3. \A y \in Contact \ {cur[b]} : SameEnd(y)
    BY <1>0, <1>4 DEF BatchDrained, SameEnd, ContactTyped, contact, Done
  <2>4. \A y \in Contact \ {cur[b]} : ~Holds(b, y) /\ ~Holds(b, y)'
    BY <1>0, <1>4 DEF BatchDrained, Goto, Forget, Holds, PlaceTyped, batch
  <2> QED  BY <1>0, <2>1, <2>2, <2>3, <2>4, FinalFrame DEF Plain
<1>5. ASSUME NEW b \in Batch, NEW c \in Contact, BatchSkip(b, c)
      PROVE  Plain
  <2>1. UNCHANGED <<delivered, late, suppressed>> /\ faults' \in {faults, faults + 1}
    BY <1>0, <1>5 DEF BatchSkip, Fault, address, outside
  <2>2. \A e \in Batch \ {b} : pc'[e] = pc[e] /\ cur'[e] = cur[e]
    BY <1>0, <1>5 DEF BatchSkip, PlaceTyped, batch
  <2>3. \A y \in Contact \ {c} : SameEnd(y)
    BY <1>0, <1>5 DEF BatchSkip, SetStatus, SameEnd, ContactTyped, contact, Done
  <2>4. \A y \in Contact \ {c} : ~Holds(b, y) /\ ~Holds(b, y)'
    BY <1>0, <1>5 DEF BatchSkip, Holds, PlaceTyped, batch
  <2> QED  BY <1>0, <2>1, <2>2, <2>3, <2>4, FinalFrame DEF Plain
<1>6. ASSUME NEW b \in Batch, NEW c \in Contact, BatchPick(b, c)
      PROVE  Plain
  <2>1. UNCHANGED <<delivered, late, suppressed>> /\ faults' \in {faults, faults + 1}
    BY <1>0, <1>6 DEF BatchPick, Fault, address, outside
  <2>2. \A e \in Batch \ {b} : pc'[e] = pc[e] /\ cur'[e] = cur[e]
    BY <1>0, <1>6 DEF BatchPick, Goto, PlaceTyped, batch
  <2>3. \A y \in Contact \ {cur[b]} : SameEnd(y)
    BY <1>0, <1>6 DEF BatchPick, SameEnd, ContactTyped, contact, Done
  <2>4. \A y \in Contact \ {cur[b]} : ~Holds(b, y) /\ ~Holds(b, y)'
    BY <1>0, <1>6 DEF BatchPick, Goto, Holds, PlaceTyped, batch
  <2> QED  BY <1>0, <2>1, <2>2, <2>3, <2>4, FinalFrame DEF Plain
<1>7. ASSUME NEW b \in Batch, BatchLimited(b)
      PROVE  Plain
  <2>1. UNCHANGED <<delivered, late, suppressed>> /\ faults' \in {faults, faults + 1}
    BY <1>0, <1>7 DEF BatchLimited, address, outside
  <2>2. \A e \in Batch \ {b} : pc'[e] = pc[e] /\ cur'[e] = cur[e]
    BY <1>0, <1>7 DEF BatchLimited, Goto, PlaceTyped, batch
  <2>3. \A y \in Contact \ {cur[b]} : SameEnd(y)
    BY <1>0, <1>7 DEF BatchLimited, SameEnd, ContactTyped, contact, Done
  <2>4. \A y \in Contact \ {cur[b]} : ~Holds(b, y) /\ ~Holds(b, y)'
    BY <1>0, <1>7 DEF BatchLimited, Goto, Holds, PlaceTyped, batch
  <2> QED  BY <1>0, <2>1, <2>2, <2>3, <2>4, FinalFrame DEF Plain
<1>8. ASSUME NEW b \in Batch, BatchWalk(b)
      PROVE  Plain
  <2>1. UNCHANGED <<delivered, late, suppressed>> /\ faults' \in {faults, faults + 1}
    BY <1>0, <1>8 DEF BatchWalk, Fault, address, outside
  <2>2. \A e \in Batch \ {b} : pc'[e] = pc[e] /\ cur'[e] = cur[e]
    BY <1>0, <1>8 DEF BatchWalk, Goto, PlaceTyped, batch
  <2>3. \A y \in Contact \ {cur[b]} : SameEnd(y)
    BY <1>0, <1>8 DEF BatchWalk, SetStatus, SameEnd, ContactTyped, contact, Done
  <2>4. \A y \in Contact \ {cur[b]} : ~Holds(b, y) /\ ~Holds(b, y)'
    BY <1>0, <1>8 DEF BatchWalk, Goto, Holds, PlaceTyped, batch
  <2> QED  BY <1>0, <2>1, <2>2, <2>3, <2>4, FinalFrame DEF Plain
<1>9. ASSUME NEW b \in Batch, BatchReply(b)
      PROVE  Plain
  <2>1. UNCHANGED <<delivered, late, suppressed>> /\ faults' \in {faults, faults + 1}
    BY <1>0, <1>9 DEF BatchReply, Fault, address, outside
  <2>2. \A e \in Batch \ {b} : pc'[e] = pc[e] /\ cur'[e] = cur[e]
    BY <1>0, <1>9 DEF BatchReply, Goto, PlaceTyped, batch
  <2>3. \A y \in Contact \ {cur[b]} : SameEnd(y)
    BY <1>0, <1>9 DEF BatchReply, SetStatus, SameEnd, ContactTyped, contact, Done
  <2>4. \A y \in Contact \ {cur[b]} : ~Holds(b, y) /\ ~Holds(b, y)'
    BY <1>0, <1>9 DEF BatchReply, Goto, Holds, PlaceTyped, batch
  <2> QED  BY <1>0, <2>1, <2>2, <2>3, <2>4, FinalFrame DEF Plain
<1>10. ASSUME NEW b \in Batch, BatchClaim(b)
      PROVE  Plain
  <2>1. UNCHANGED <<delivered, late, suppressed>> /\ faults' \in {faults, faults + 1}
    BY <1>0, <1>10 DEF BatchClaim, Fault, address, outside
  <2>2. \A e \in Batch \ {b} : pc'[e] = pc[e] /\ cur'[e] = cur[e]
    BY <1>0, <1>10 DEF BatchClaim, Goto, PlaceTyped, batch
  <2>3. \A y \in Contact \ {cur[b]} : SameEnd(y)
    BY <1>0, <1>10 DEF BatchClaim, SetStatus, SameEnd, ContactTyped, contact, Done
  <2>4. \A y \in Contact \ {cur[b]} : ~Holds(b, y) /\ ~Holds(b, y)'
    BY <1>0, <1>10 DEF BatchClaim, Goto, Holds, PlaceTyped, batch
  <2> QED  BY <1>0, <2>1, <2>2, <2>3, <2>4, FinalFrame DEF Plain
<1>11. ASSUME NEW b \in Batch, BatchRecord(b)
      PROVE  Plain
  <2>1. UNCHANGED <<delivered, late, suppressed>> /\ faults' \in {faults, faults + 1}
    BY <1>0, <1>11 DEF BatchRecord, address, outside
  <2>2. \A e \in Batch \ {b} : pc'[e] = pc[e] /\ cur'[e] = cur[e]
    BY <1>0, <1>11 DEF BatchRecord, Goto, PlaceTyped, batch
  <2>3. \A y \in Contact \ {cur[b]} : SameEnd(y)
    BY <1>0, <1>11 DEF BatchRecord, SameEnd, ContactTyped, contact, Done
  <2>4. \A y \in Contact \ {cur[b]} : ~Holds(b, y) /\ ~Holds(b, y)'
    BY <1>0, <1>11 DEF BatchRecord, Goto, Holds, PlaceTyped, batch
  <2> QED  BY <1>0, <2>1, <2>2, <2>3, <2>4, FinalFrame DEF Plain
<1>12. ASSUME NEW b \in Batch, BatchRecordError(b)
      PROVE  Plain
  <2>1. UNCHANGED <<delivered, late, suppressed>> /\ faults' \in {faults, faults + 1}
    BY <1>0, <1>12 DEF BatchRecordError, Fault, address, outside
  <2>2. \A e \in Batch \ {b} : pc'[e] = pc[e] /\ cur'[e] = cur[e]
    BY <1>0, <1>12 DEF BatchRecordError, Goto, PlaceTyped, batch
  <2>3. \A y \in Contact \ {cur[b]} : SameEnd(y)
    BY <1>0, <1>12 DEF BatchRecordError, SetStatus, SameEnd, ContactTyped, contact, Done
  <2>4. \A y \in Contact \ {cur[b]} : ~Holds(b, y) /\ ~Holds(b, y)'
    BY <1>0, <1>12 DEF BatchRecordError, Goto, Holds, PlaceTyped, batch
  <2> QED  BY <1>0, <2>1, <2>2, <2>3, <2>4, FinalFrame DEF Plain
<1>13. ASSUME NEW b \in Batch, BatchBounce(b)
      PROVE  Plain
  <2>1. UNCHANGED <<delivered, late, suppressed>> /\ faults' \in {faults, faults + 1}
    BY <1>0, <1>13 DEF BatchBounce, address, outside
  <2>2. \A e \in Batch \ {b} : pc'[e] = pc[e] /\ cur'[e] = cur[e]
    BY <1>0, <1>13 DEF BatchBounce, Goto, PlaceTyped, batch
  <2>3. \A y \in Contact \ {cur[b]} : SameEnd(y)
    BY <1>0, <1>13 DEF BatchBounce, SetStatus, SameEnd, ContactTyped, contact, Done
  <2>4. \A y \in Contact \ {cur[b]} : ~Holds(b, y) /\ ~Holds(b, y)'
    BY <1>0, <1>13 DEF BatchBounce, Goto, Holds, PlaceTyped, batch
  <2> QED  BY <1>0, <2>1, <2>2, <2>3, <2>4, FinalFrame DEF Plain
<1>14. ASSUME NEW b \in Batch, BatchFail(b)
      PROVE  Plain
  <2>1. UNCHANGED <<delivered, late, suppressed>> /\ faults' \in {faults, faults + 1}
    BY <1>0, <1>14 DEF BatchFail, address, outside
  <2>2. \A e \in Batch \ {b} : pc'[e] = pc[e] /\ cur'[e] = cur[e]
    BY <1>0, <1>14 DEF BatchFail, Goto, PlaceTyped, batch
  <2>3. \A y \in Contact \ {cur[b]} : SameEnd(y)
    BY <1>0, <1>14 DEF BatchFail, SetStatus, SameEnd, ContactTyped, contact, Done
  <2>4. \A y \in Contact \ {cur[b]} : ~Holds(b, y) /\ ~Holds(b, y)'
    BY <1>0, <1>14 DEF BatchFail, Goto, Holds, PlaceTyped, batch
  <2> QED  BY <1>0, <2>1, <2>2, <2>3, <2>4, FinalFrame DEF Plain
<1>15. ASSUME NEW b \in Batch, BatchMark(b)
      PROVE  Plain
  <2>1. UNCHANGED <<delivered, late, suppressed>> /\ faults' \in {faults, faults + 1}
    BY <1>0, <1>15 DEF BatchMark, address, outside
  <2>2. \A e \in Batch \ {b} : pc'[e] = pc[e] /\ cur'[e] = cur[e]
    BY <1>0, <1>15 DEF BatchMark, Goto, PlaceTyped, batch
  <2>3. \A y \in Contact \ {cur[b]} : SameEnd(y)
    BY <1>0, <1>15 DEF BatchMark, SameEnd, ContactTyped, contact, Done
  <2>4. \A y \in Contact \ {cur[b]} : ~Holds(b, y) /\ ~Holds(b, y)'
    BY <1>0, <1>15 DEF BatchMark, Goto, Holds, PlaceTyped, batch
  <2> QED  BY <1>0, <2>1, <2>2, <2>3, <2>4, FinalFrame DEF Plain
<1>16. ASSUME NEW b \in Batch, BatchAdvance(b)
      PROVE  Plain
  <2>1. UNCHANGED <<delivered, late, suppressed>> /\ faults' \in {faults, faults + 1}
    BY <1>0, <1>16 DEF BatchAdvance, address, outside
  <2>2. \A e \in Batch \ {b} : pc'[e] = pc[e] /\ cur'[e] = cur[e]
    BY <1>0, <1>16 DEF BatchAdvance, Goto, PlaceTyped, batch
  <2>3. \A y \in Contact \ {cur[b]} : SameEnd(y)
    BY <1>0, <1>16 DEF BatchAdvance, SetStatus, SameEnd, ContactTyped, contact, Done
  <2>4. \A y \in Contact \ {cur[b]} : ~Holds(b, y) /\ ~Holds(b, y)'
    BY <1>0, <1>16 DEF BatchAdvance, Goto, Holds, PlaceTyped, batch
  <2> QED  BY <1>0, <2>1, <2>2, <2>3, <2>4, FinalFrame DEF Plain
<1>17. ASSUME NEW b \in Batch, BatchWriteError(b)
      PROVE  Plain
  <2>1. UNCHANGED <<delivered, late, suppressed>> /\ faults' \in {faults, faults + 1}
    BY <1>0, <1>17 DEF BatchWriteError, Fault, address, outside
  <2>2. \A e \in Batch \ {b} : pc'[e] = pc[e] /\ cur'[e] = cur[e]
    BY <1>0, <1>17 DEF BatchWriteError, Goto, PlaceTyped, batch
  <2>3. \A y \in Contact \ {cur[b]} : SameEnd(y)
    BY <1>0, <1>17 DEF BatchWriteError, SameEnd, ContactTyped, contact, Done
  <2>4. \A y \in Contact \ {cur[b]} : ~Holds(b, y) /\ ~Holds(b, y)'
    BY <1>0, <1>17 DEF BatchWriteError, Goto, Holds, PlaceTyped, batch
  <2> QED  BY <1>0, <2>1, <2>2, <2>3, <2>4, FinalFrame DEF Plain
<1>18. ASSUME NEW b \in Batch, BatchCount(b)
      PROVE  Plain
  <2>1. UNCHANGED <<delivered, late, suppressed>> /\ faults' \in {faults, faults + 1}
    BY <1>0, <1>18 DEF BatchCount, Fault, address, outside
  <2>2. \A e \in Batch \ {b} : pc'[e] = pc[e] /\ cur'[e] = cur[e]
    BY <1>0, <1>18 DEF BatchCount, Fault, Goto, PlaceTyped, batch
  <2>3. \A y \in Contact \ {cur[b]} : SameEnd(y)
    BY <1>0, <1>18 DEF BatchCount, Fault, SameEnd, ContactTyped, contact, Done
  <2>4. \A y \in Contact \ {cur[b]} : ~Holds(b, y) /\ ~Holds(b, y)'
    BY <1>0, <1>18 DEF BatchCount, Fault, Goto, Holds, PlaceTyped, batch
  <2> QED  BY <1>0, <2>1, <2>2, <2>3, <2>4, FinalFrame DEF Plain
<1>19. ASSUME NEW b \in Batch, BatchComplete(b)
      PROVE  Plain
  <2>1. UNCHANGED <<delivered, late, suppressed>> /\ faults' \in {faults, faults + 1}
    BY <1>0, <1>19 DEF BatchComplete, address, outside
  <2>2. \A e \in Batch \ {b} : pc'[e] = pc[e] /\ cur'[e] = cur[e]
    BY <1>0, <1>19 DEF BatchComplete, Goto, PlaceTyped, batch
  <2>3. \A y \in Contact \ {cur[b]} : SameEnd(y)
    BY <1>0, <1>19 DEF BatchComplete, SameEnd, ContactTyped, contact, Done
  <2>4. \A y \in Contact \ {cur[b]} : ~Holds(b, y) /\ ~Holds(b, y)'
    BY <1>0, <1>19 DEF BatchComplete, Goto, Holds, PlaceTyped, batch
  <2> QED  BY <1>0, <2>1, <2>2, <2>3, <2>4, FinalFrame DEF Plain
<1>20. ASSUME NEW b \in Batch, BatchLost(b)
      PROVE  Plain
  <2>1. UNCHANGED <<delivered, late, suppressed>> /\ faults' \in {faults, faults + 1}
    BY <1>0, <1>20 DEF BatchLost, Fault, address, outside
  <2>2. \A e \in Batch \ {b} : pc'[e] = pc[e] /\ cur'[e] = cur[e]
    BY <1>0, <1>20 DEF BatchLost, Goto, Forget, PlaceTyped, batch
  <2>3. \A y \in Contact \ {cur[b]} : SameEnd(y)
    BY <1>0, <1>20 DEF BatchLost, SameEnd, ContactTyped, contact, Done
  <2>4. \A y \in Contact \ {cur[b]} : ~Holds(b, y) /\ ~Holds(b, y)'
    BY <1>0, <1>20 DEF BatchLost, Goto, Forget, Holds, PlaceTyped, batch
  <2> QED  BY <1>0, <2>1, <2>2, <2>3, <2>4, FinalFrame DEF Plain
<1>21. ASSUME NEW c \in Contact, LaunchAdd(c)
      PROVE  Plain
  <2>1. UNCHANGED <<delivered, late, suppressed, pc, cur>> /\ faults' \in {faults, faults + 1}
    BY <1>21 DEF LaunchAdd, address, outside, batch
  <2>2. \A y \in Contact \ {c} : status'[y] = status[y]
    BY <1>0, <1>21 DEF LaunchAdd, ContactTyped, contact
  <2> QED  BY <2>1, <2>2 DEF Plain, Final, Holds
<1>22. ASSUME NEW c \in Contact, HandleInbound(c)
      PROVE  Plain
  <2>1. UNCHANGED <<delivered, late, suppressed, pc, cur>> /\ faults' \in {faults, faults + 1}
    BY <1>22 DEF HandleInbound, Fault, address, outside, batch
  <2>2. \A y \in Contact \ {c} : status'[y] = status[y]
    BY <1>0, <1>22 DEF HandleInbound, ContactTyped, contact
  <2> QED  BY <2>1, <2>2 DEF Plain, Final, Holds
<1>23. ASSUME NEW c \in Contact, UnsubContact(c)
      PROVE  Plain
  <2>1. UNCHANGED <<delivered, late, suppressed, pc, cur>> /\ faults' \in {faults, faults + 1}
    BY <1>23 DEF UnsubContact, Fault, address, outside, batch
  <2>2. \A y \in Contact \ {c} : status'[y] = status[y]
    BY <1>0, <1>23 DEF UnsubContact, ContactTyped, contact
  <2> QED  BY <2>1, <2>2 DEF Plain, Final, Holds
<1>24. CASE UNCHANGED <<delivered, late, suppressed, pc, cur, status, faults>>
  BY <1>24 DEF Plain, Final, Holds
<1> QED
  BY <1>1, <1>2, <1>3, <1>4, <1>5, <1>6, <1>7, <1>8, <1>9, <1>10, <1>11, <1>12, <1>13, <1>14,
     <1>15, <1>16, <1>17, <1>18, <1>19, <1>20, <1>21, <1>22, <1>23, <1>24
  DEF Next, UserStep, ContactStep, BatchStep, vars, camp, contact, address, mailbox, outside,
      batch, LaunchRead, LaunchUpdate, HandleCampaignPause, MoveCampaign, HandleCampaignCancel,
      OutreachTick, UnsubNotFound, DaysPass, Abandon, HourPasses

\* The steps that suppress, or fail to.
LEMMA SuppressStep ==
    ASSUME Typed,
           (\E c \in Contact : UnsubSuppress(c)) \/ (\E b \in Batch : BatchSuppress(b))
    PROVE  Contract!Next
<1>0. PlaceTyped
  BY DEF Typed
<1>1. \/ faults' = faults /\ \E a \in Contact : suppressed' = [suppressed EXCEPT ![a] = TRUE]
      \/ faults' = faults + 1 /\ UNCHANGED suppressed
  BY <1>0 DEF UnsubSuppress, BatchSuppress, Fault, PlaceTyped, Working
<1>2. UNCHANGED <<delivered, late, status, overruns>>
  BY DEF UnsubSuppress, BatchSuppress, contact, outside
<1>3. \A e \in Batch, y \in Contact : Holds(e, y)' <=> Holds(e, y)
  BY <1>0 DEF UnsubSuppress, BatchSuppress, Goto, Holds, PlaceTyped, batch
<1>4. \A y \in Contact : Final(y)' <=> Final(y)
  BY <1>2, <1>3 DEF Final
<1>5. /\ [c \in Contact |-> Final(c)]' = [c \in Contact |-> Final(c)]
      /\ [c \in Contact |-> ~InTime(c)]' = [c \in Contact |-> ~InTime(c)]
  BY <1>2, <1>4, SameOver, SameLapses
<1>6. CASE faults' = faults
  <2>1. PICK a \in Contact : suppressed' = [suppressed EXCEPT ![a] = TRUE]
    <3>1. faults # faults + 1
      BY FaultsFact DEF Typed
    <3> QED  BY <1>1, <1>6, <3>1
  <2>2. Contract!Suppress(a)
    BY <1>2, <1>5, <1>6, <2>1 DEF Contract!Suppress
  <2> QED  BY <2>2 DEF Contract!Next
<1>7. CASE faults' = faults + 1 /\ UNCHANGED suppressed
  <2>1. Contract!Fail
    BY <1>2, <1>5, <1>7 DEF Contract!Fail
  <2> QED  BY <2>1 DEF Contract!Next
<1> QED  BY <1>1, <1>6, <1>7

\* A claim that is outlasted.
LEMMA LapseStep ==
    ASSUME Typed, Counted, NEW a \in Contact, Abandon(a), overruns' # overruns
    PROVE  Contract!Next
<1>1. UNCHANGED <<delivered, late, suppressed, faults, status, pc, cur>>
  BY DEF Abandon, address, outside, batch
<1>2. overruns' = [overruns EXCEPT ![a] = @ + 1]
  BY DEF Abandon
<1>3. [c \in Contact |-> Final(c)]' = [c \in Contact |-> Final(c)]
  <2>1. \A y \in Contact : Final(y)' <=> Final(y)
    BY <1>1 DEF Final, Holds
  <2> QED  BY <2>1, SameOver
<1>4. [c \in Contact |-> ~InTime(c)]' = [[c \in Contact |-> ~InTime(c)] EXCEPT ![a] = TRUE]
  <2>1. overruns[a] + 1 # 0
    <3>1. overruns[a] \in Nat
      BY FaultsFact DEF Counted
    <3> QED  BY <3>1
  <2>2. \A c \in Contact : overruns'[c] = 0 <=> c # a /\ overruns[c] = 0
    BY <1>2, <2>1 DEF Counted
  <2>3. [c \in Contact |-> ~(overruns'[c] = 0)]
        = [[c \in Contact |-> ~(overruns[c] = 0)] EXCEPT ![a] = TRUE]
    BY <2>2
  <2> QED  BY <2>3 DEF InTime
<1>5. Contract!Lapse(a)
  BY <1>1, <1>3, <1>4 DEF Contract!Lapse
<1> QED  BY <1>5 DEF Contract!Next

\* What the relay takes is what the contract lets through.
LEMMA MailStep ==
    ASSUME SendInv, Ordered, OnCourse, LatePaid, NEW b \in Batch, BatchSend(b)
    PROVE  Contract!Next \/ UNCHANGED Contract!vars
<1> DEFINE a == cur[b]
           k == idx[b]
           Over == [c \in Contact |-> Final(c)]
<1>0. /\ PlaceTyped /\ CopyTyped /\ OutsideTyped /\ Typed
      /\ OneSender /\ Unsent /\ Tallied /\ faults \in Nat
  BY FaultsFact DEF SendInv, Typed
<1>1. pc[b] = "smtp" /\ UNCHANGED <<status, suppressed, cur, overruns, faults>>
  BY DEF BatchSend, contact, address
<1>2. a \in Contact /\ k \in StepNo /\ Holds(b, a)
  BY <1>0, <1>1 DEF Holds, PlaceTyped, CopyTyped, Working
<1>3. \A y \in Contact : Final(y)' <=> Final(y)
  <2>1. \A e \in Batch, y \in Contact : Holds(e, y)' <=> Holds(e, y)
    BY <1>0, <1>1 DEF BatchSend, Goto, Holds, PlaceTyped
  <2> QED  BY <1>1, <2>1 DEF Final
<1>4. Over' = Over /\ [c \in Contact |-> ~InTime(c)]' = [c \in Contact |-> ~InTime(c)]
  BY <1>1, <1>3, SameOver, SameLapses
<1>5. CASE UNCHANGED <<delivered, late>>
  BY <1>1, <1>4, <1>5 DEF Contract!vars
<1>6. CASE Deliver(a, k)
  <2>1. ~Final(a)
    BY <1>2 DEF Final
  <2>2. k \in Aims(a)
    BY <1>0, <1>1, <1>2 DEF OnCourse, Aims, PastCheck
  <2>3. Steps[k] = "email" /\ Covered(delivered[a], k)
    BY <1>0, <1>2, <2>2, AimFact
  <2>4. InTime(a) => k \notin Shut(a)
    BY <1>0, <1>1, <1>2 DEF Shut, Closed, Unsent, OneSender, Holds
  <2>5. InTime(a) => delivered[a][k] <= faults
    <3> SUFFICES ASSUME InTime(a)
                 PROVE  delivered[a][k] <= faults
      OBVIOUS
    <3>1. delivered[a][k] + Cardinality(Bouncing(a, k)) <= faults
      BY <1>0, <1>2, <2>1, <2>4 DEF Tallied, Tally, Shut
    <3>2. delivered[a][k] \in Nat /\ Cardinality(Bouncing(a, k)) \in Nat
      BY <1>0, <1>2, BouncingFinite DEF OutsideTyped
    <3> QED  BY <1>0, <3>1, <3>2
  <2>6. InTime(a) /\ suppressed[a] => late[a] <= faults
    <3> SUFFICES ASSUME InTime(a), suppressed[a]
                 PROVE  late[a] <= faults
      OBVIOUS
    <3>1. late[a] + Cardinality(AtRisk(a)) + Cardinality(Recording(a)) <= 1 + faults
      BY <1>2, <2>1 DEF LatePaid
    <3>2. Cardinality(AtRisk(a)) \in Nat /\ Cardinality(Recording(a)) \in Nat /\ late[a] \in Nat
      BY <1>0, <1>2, LateSets DEF OutsideTyped
    <3>3. Cardinality(AtRisk(a)) # 0
      <4>1. k \in AtRisk(a) /\ AtRisk(a) \in SUBSET StepNo
        BY <2>2, <2>4, LateSets DEF AtRisk
      <4> QED  BY <4>1, StepSets, FS_EmptySet
    <3> QED  BY <1>0, <3>1, <3>2, <3>3
  <2>7. late' = IF suppressed[a] THEN [late EXCEPT ![a] = @ + 1] ELSE late
    BY <1>0, <1>2, <1>6 DEF Deliver, OutsideTyped
  <2>8. delivered' = [delivered EXCEPT ![a][k] = @ + 1]
    BY <1>6 DEF Deliver
  <2>9. Contract!Mail(a, k)
    BY <1>1, <1>2, <1>4, <2>1, <2>3, <2>5, <2>6, <2>7, <2>8
    DEF Contract!Mail, Contract!StepNo, StepNo, Covered
  <2> QED  BY <1>2, <2>9 DEF Contract!Next, Contract!StepNo, StepNo
<1> QED  BY <1>5, <1>6 DEF BatchSend

\* Every step is one of the contract or none.
LEMMA ContractStep ==
    SendInv /\ Ordered /\ OnCourse /\ LatePaid /\ [Next]_vars => [Contract!Next]_(Contract!vars)
<1> SUFFICES ASSUME SendInv, Ordered, OnCourse, LatePaid, [Next]_vars
             PROVE  Contract!Next \/ UNCHANGED Contract!vars
  OBVIOUS
<1>1. CASE \E b \in Batch : BatchSend(b)
  BY <1>1, MailStep
<1>2. CASE (\E c \in Contact : UnsubSuppress(c)) \/ (\E b \in Batch : BatchSuppress(b))
  BY <1>2, SuppressStep DEF SendInv
<1>3. CASE overruns' # overruns
  <2>1. PICK c \in Contact : Abandon(c)
    BY <1>3, OverrunsKept
  <2> QED  BY <1>3, <2>1, LapseStep DEF SendInv
<1>4. CASE /\ ~ \E b \in Batch : BatchSend(b) \/ BatchSuppress(b)
           /\ ~ \E c \in Contact : UnsubSuppress(c)
           /\ overruns' = overruns
  BY <1>4, PlainSteps, PlainStep DEF SendInv
<1> QED  BY <1>1, <1>2, <1>3, <1>4

-----------------------------------------------------------------------------
(* The theorems.                                                           *)

\* Every reachable state is well typed, and a batch at work is at work on a
\* contact, for any campaign.
THEOREM Typing == Spec => []TypeOK
<1>1. Typed /\ Counted => TypeOK
  BY DEF Typed, Counted, TypeOK, CampTyped, ContactTyped, AddressTyped, MailTyped, OutsideTyped,
         PlaceTyped, CopyTyped
<1>2. Typed /\ Counted /\ [Next]_vars => Typed' /\ Counted'
  BY TypedStep, CountedStep
<1> QED  BY <1>1, <1>2, TypedInit, CountedInit, PTL DEF Spec

\* No step of the sequence is left out, whatever batches overlap, however old
\* their copies are, whatever fails and however long the relay takes.
THEOREM InOrder == Spec => []StepsInOrder
<1> DEFINE Inv == Typed /\ Ordered
<1>1. Init => Inv
  BY TypedInit, OrderedInit
<1>2. Inv /\ [Next]_vars => Inv'
  BY TypedStep, OrderedStep
<1>3. Inv => StepsInOrder
  BY DEF Ordered, Covered, StepsInOrder
<1> QED  BY <1>1, <1>2, <1>3, PTL DEF Spec

\* One batch sends to a contact at a time, and one more for each claim of it
\* that another took over while its batch still talked to the relay: for any
\* number of batches, contacts and failures.
THEOREM Senders == Spec => []SendersBounded
<1> DEFINE Inv == Typed /\ Counted /\ Seated
<1>1. Init => Inv
  BY TypedInit, CountedInit, SeatedInit
<1>2. Inv /\ [Next]_vars => Inv'
  BY TypedStep, CountedStep, SeatedStep
<1>3. Inv => SendersBounded
  <2> SUFFICES ASSUME Inv, NEW c \in Contact
               PROVE  Cardinality(Holders(c)) <= 1 + overruns[c]
    BY DEF SendersBounded, Holders
  <2>1. Holders(c) \in SUBSET Batch
    BY DEF Holders
  <2>2. Cardinality(Holders(c)) \in Nat /\ overruns[c] \in Nat
    BY <2>1, BatchSets, FaultsFact DEF Counted
  <2> QED  BY <2>2 DEF Seated
<1> QED  BY <1>1, <1>2, <1>3, PTL DEF Spec

\* That invariant holds in every reachable state, for any contacts, batches and
\* steps.
THEOREM Invariant == Spec => []SendInv
<1>1. Init => SendInv
  BY TypedInit, CountedInit, OneSenderInit, TalliedInit DEF SendInv
<1>2. SendInv /\ [Next]_vars => SendInv'
  BY TypedStep, CountedStep, OneSenderStep, UnsentStep, TalliedStep DEF SendInv
<1> QED  BY <1>1, <1>2, PTL DEF Spec

\* Unless a batch outlasted its claim of the contact, the relay gets a message
\* twice only when a worker died between the two or a statement failed.
THEOREM NoMailTwice == Spec => []DuplicatesNeedFault
<1>1. SendInv => DuplicatesNeedFault
  BY DEF SendInv, Tallied, Tally, DuplicatesNeedFault
<1> QED  BY <1>1, Invariant, PTL

\* And a recorded reply holds: no batch, however old its copy of the contacts,
\* mails a contact whose replied_at is set, unless it outlasted its claim.
THEOREM ReplyStops == Spec => RecordedReplyStops
<1>1. SendInv /\ [Next]_vars =>
        [\A c \in Contact :
            repliedAt[c] /\ InTime(c) => delivered'[c] = delivered[c]]_vars
  <2> SUFFICES ASSUME SendInv, [Next]_vars, NEW c \in Contact, repliedAt[c], InTime(c)
               PROVE  delivered'[c] = delivered[c]
    OBVIOUS
  <2>1. CASE \E b \in Batch : BatchSend(b)
    <3>1. PICK b \in Batch : BatchSend(b)
      BY <2>1
    <3>2. pc[b] = "smtp" /\ cur[b] # c
      BY <3>1 DEF BatchSend, SendInv, OneSender, Final, Holds
    <3> QED  BY <3>1, <3>2 DEF BatchSend, Deliver, SendInv, Typed, OutsideTyped
  <2>2. CASE ~ \E b \in Batch : BatchSend(b)
    <3>1. CASE \E b \in Batch : BatchStart(b) \/ BatchStep(b) \/ BatchLost(b)
      BY <2>2, <3>1
      DEF BatchStep, outside, BatchStart, BatchRequeue, BatchSelect, BatchDrained,
          BatchSkip, BatchPick, BatchLimited, BatchWalk, BatchReply, BatchClaim, BatchRecord,
          BatchRecordError, BatchBounce, BatchSuppress, BatchFail, BatchMark, BatchAdvance,
          BatchWriteError, BatchCount, BatchComplete, BatchLost
    <3>2. CASE ~ \E b \in Batch : BatchStart(b) \/ BatchStep(b) \/ BatchLost(b)
      BY <3>2
      DEF Next, UserStep, ContactStep, vars, outside, LaunchRead, LaunchUpdate, LaunchAdd,
          HandleCampaignPause, MoveCampaign, HandleCampaignCancel, OutreachTick, HandleInbound,
          UnsubSuppress, UnsubContact, UnsubNotFound, DaysPass, Abandon, HourPasses
    <3> QED  BY <3>1, <3>2
  <2> QED  BY <2>1, <2>2
<1> QED  BY <1>1, Invariant, PTL DEF RecordedReplyStops, Spec

\* The inductive invariant of late mail: whoever is on course, each step that
\* is open again and each late mail is paid for.
LateInv == SendInv /\ Ordered /\ OnCourse /\ HolesPaid /\ LatePaid

\* It holds in every reachable state.
THEOREM LateInvariant == Spec => []LateInv
<1>1. Init => LateInv
  BY TypedInit, CountedInit, OneSenderInit, TalliedInit, OrderedInit, LateInit DEF SendInv, LateInv
<1>2. LateInv /\ [Next]_vars => LateInv'
  <2> SUFFICES ASSUME LateInv, [Next]_vars
               PROVE  LateInv'
    OBVIOUS
  <2>1. SendInv' /\ Typed' /\ Ordered' /\ OnCourse'
    BY TypedStep, CountedStep, OneSenderStep, UnsentStep, TalliedStep, OrderedStep, OnCourseStep
    DEF SendInv, LateInv
  <2>2. \A x \in Contact : InTime(x)' => InTime(x) /\ Step(x)
    BY InTimeBefore, StepKinds DEF SendInv, LateInv
  <2>3. HolesPaid'
    BY <2>1, <2>2, HolesStep DEF SendInv, LateInv, HolesPaid
  <2>4. LatePaid'
    BY <2>1, <2>2, <2>3, LateStep DEF SendInv, LateInv, LatePaid
  <2> QED  BY <2>1, <2>3, <2>4 DEF LateInv
<1> QED  BY <1>1, <1>2, PTL DEF Spec

\* After an address is suppressed it gets at most the one message that was
\* past its check, and one more for each failure: for any number of batches
\* and steps, unless one of them outlasted its claim of the contact.
THEOREM LateBounded == Spec => []LateMailBounded
<1>1. LateInv => LateMailBounded
  BY DEF LateInv, LatePaid, LateMailBounded
<1> QED  BY <1>1, LateInvariant, PTL

\* What a contact may expect: a campaign of any length, for any contacts and
\* batches and however long the relay takes, implements the contract.
THEOREM Refinement == Spec => KeepsContract
<1>1. Init => Contract!Init
  BY ContractInit
<1>2. LateInv /\ [Next]_vars => [Contract!Next]_(Contract!vars)
  BY ContractStep DEF LateInv
<1> QED  BY <1>1, <1>2, LateInvariant, PTL DEF Spec, KeepsContract, Contract!Spec

=============================================================================
