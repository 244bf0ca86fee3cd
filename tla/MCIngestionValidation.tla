----------------------- MODULE MCIngestionValidation -----------------------
(* Instances of IngestionValidation for TLC. *)
EXTENDS IngestionValidation, FiniteSets

MCTexts == {"ana", "blas"}

Good == [key |-> "ana", form |-> "object",
         event |-> [version |-> TRUE, eventId |-> "ana", customerId |-> "ana",
                    time |-> "zoned", hasPayload |-> TRUE,
                    amount |-> "positive", currency |-> TRUE,
                    type |-> "allowed", channel |-> "allowed"]]

WithEvent(e) == [Good EXCEPT !.event = e]

\* A good record with one thing in it that is not.
OneFault ==
    {[Good EXCEPT !.key = x] : x \in KeyClasses}
    \union {[Good EXCEPT !.form = x] : x \in FormClasses}
    \union {WithEvent([Good.event EXCEPT !.eventId = x]) : x \in NameClasses}
    \union {WithEvent([Good.event EXCEPT !.customerId = x]) : x \in NameClasses}
    \union {WithEvent([Good.event EXCEPT !.time = x]) : x \in TimeClasses}
    \union {WithEvent([Good.event EXCEPT !.amount = x]) : x \in AmountClasses}
    \union {WithEvent([Good.event EXCEPT !.type = x]) : x \in ChoiceClasses}
    \union {WithEvent([Good.event EXCEPT !.channel = x]) : x \in ChoiceClasses}
    \union {WithEvent([Good.event EXCEPT !.version = FALSE]),
            WithEvent([Good.event EXCEPT !.currency = FALSE]),
            WithEvent([Good.event EXCEPT !.hasPayload = FALSE])}

\* A customer id that is no name under a key that is none, a lone surrogate
\* in a record that is refused for another reason.
TwoFaults ==
    {[key |-> Blank, form |-> "object",
      event |-> [Good.event EXCEPT !.customerId = Blank]],
     [key |-> "blas", form |-> "object",
      event |-> [Good.event EXCEPT !.eventId = Surrogate]]}

MCRecords == OneFault \union TwoFaults

\* A good record and those on which the contract raises.
MCRaising == {Good} \union {r \in OneFault : ContractRaises(r.event)}
=============================================================================
