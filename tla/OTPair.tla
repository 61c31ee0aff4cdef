------------------------------- MODULE OTPair -------------------------------
(***************************************************************************)
(* The two endpoints of an OT instance: the sender's and the receiver's    *)
(* YaclFerretOTeAdapter on one link, with send_cot and recv_cot.           *)
(*                                                                         *)
(* The endpoints share no state.  That their buffers give out the same     *)
(* correlations rests on both ranks asking for the same lengths in the     *)
(* same order, and on the messages of extensions and flips not mixing.     *)
(***************************************************************************)
EXTENDS Naturals, Sequences

CONSTANTS N, PreN, Reserve, Sizes,
  MaxSpent, MaxCalls   \* bound on the number of OTs of the program

VARIABLES
  requests,  \* the OTs of the program so far: length, chosen choices or not
  toS, toR,  \* messages under way to the sender, to the receiver
  sdone, spc, sbusy, sneed, soff, sdata, sinplace, sbuf, sused, supper, sext, sspent,
  rdone, rpc, rbusy, rneed, roff, rdata, rinplace, rbuf, rused, rupper, rext, rspent

S == INSTANCE OTBuffer WITH
       pc <- spc, busy <- sbusy, need <- sneed, off <- soff, data <- sdata,
       inplace <- sinplace, buf <- sbuf, used <- sused, upper <- supper,
       ext <- sext, spent <- sspent

R == INSTANCE OTBuffer WITH
       pc <- rpc, busy <- rbusy, need <- rneed, off <- roff, data <- rdata,
       inplace <- rinplace, buf <- rbuf, used <- rused, upper <- rupper,
       ext <- rext, spent <- rspent

sender == <<sdone, spc, sbusy, sneed, soff, sdata, sinplace, sbuf, sused, supper,
            sext, sspent>>
receiver == <<rdone, rpc, rbusy, rneed, roff, rdata, rinplace, rbuf, rused, rupper,
              rext, rspent>>
vars == <<requests, toS, toR, sender, receiver>>

Request == [n : Sizes, cot : BOOLEAN]

Init ==
  /\ requests = <<>> /\ toS = <<>> /\ toR = <<>>
  /\ sdone = 0 /\ S!Init
  /\ rdone = 0 /\ R!Init

\* The program comes to its next OT, at the rank that gets there first.
NextRequest(done) ==
  \/ done < Len(requests) /\ UNCHANGED requests
  \/ /\ done = Len(requests) /\ done < MaxCalls
     /\ \E q \in Request : requests' = Append(requests, q)

\* Mutant: the receiver rounds the number of its choices up.
RLengthEven(q) == 2 * ((q.n + 1) \div 2)

\* recv_cot asks rcot for as many correlations as there are choices.
RLength(q) == q.n

\* Mutant: send_rcot waits for flips as send_cot does.
SWaitsAlways(q) == TRUE

\* send_cot waits for the flips, send_rcot does not.
SWaits(q) == q.cot

\* Mutant: recv_rcot sends flips as recv_cot does.
RFlipsAlways(q) == TRUE

\* recv_cot sends the flips and does not wait, recv_rcot sends nothing.
RFlips(q) == q.cot

-----------------------------------------------------------------------------
(* The sender.  An extension is a message each way.                        *)

SCall ==
  /\ NextRequest(sdone)
  /\ S!Call(requests'[sdone + 1].n)
  /\ UNCHANGED <<toS, toR, sdone, receiver>>

SStart ==
  /\ S!Start
  /\ toR' = Append(toR, <<"ext", sext'>>)
  /\ UNCHANGED <<requests, toS, sdone, receiver>>

SEnd ==
  /\ S!End
  /\ toS # <<>> /\ toS' = Tail(toS)
  /\ UNCHANGED <<requests, toR, sdone, receiver>>

STake == S!Take /\ UNCHANGED <<requests, toS, toR, sdone, receiver>>

SReturn ==
  /\ S!Return
  /\ IF SWaits(requests[sdone + 1]) THEN toS # <<>> /\ toS' = Tail(toS) ELSE UNCHANGED toS
  /\ sdone' = sdone + 1
  /\ UNCHANGED <<requests, toR, receiver>>

-----------------------------------------------------------------------------
(* The receiver.                                                           *)

RCall ==
  /\ NextRequest(rdone)
  /\ R!Call(RLength(requests'[rdone + 1]))
  /\ UNCHANGED <<toS, toR, rdone, sender>>

RStart ==
  /\ R!Start
  /\ toS' = Append(toS, <<"ext", rext'>>)
  /\ UNCHANGED <<requests, toR, rdone, sender>>

REnd ==
  /\ R!End
  /\ toR # <<>> /\ toR' = Tail(toR)
  /\ UNCHANGED <<requests, toS, rdone, sender>>

RTake == R!Take /\ UNCHANGED <<requests, toS, toR, rdone, sender>>

RReturn ==
  /\ R!Return
  /\ toS' = IF RFlips(requests[rdone + 1]) THEN Append(toS, <<"flip", rdone + 1>>) ELSE toS
  /\ rdone' = rdone + 1
  /\ UNCHANGED <<requests, toR, sender>>

Done == sdone = MaxCalls /\ rdone = MaxCalls /\ UNCHANGED vars

SStep == SCall \/ SStart \/ SEnd \/ STake \/ SReturn
RStep == RCall \/ RStart \/ REnd \/ RTake \/ RReturn
Next == SStep \/ RStep \/ Done

Spec == Init /\ [][Next]_vars

\* Both ranks run.
FairSpec == Spec /\ WF_vars(SStep) /\ WF_vars(RStep)

-----------------------------------------------------------------------------
(* Properties.                                                             *)

\* The endpoints consume the same correlations for the same purpose.
OTsAligned ==
  \A k \in 1 .. Len(sspent) : k <= Len(rspent) => sspent[k] = rspent[k]

\* A message is read by the step it was meant for.
MessagesExpected ==
  /\ sbusy /\ toS # <<>> => Head(toS) = <<"ext", sext>>
  /\ rbusy /\ toR # <<>> => Head(toR) = <<"ext", rext>>
  /\ spc = "return" /\ requests[sdone + 1].cot /\ toS # <<>> =>
       Head(toS) = <<"flip", sdone + 1>>

\* Every OT of the program is served.
Termination == <>(sdone = MaxCalls /\ rdone = MaxCalls)

=============================================================================
