---------------------------- MODULE MCConsumers ----------------------------
EXTENDS Consumers
Api == [kind |-> "api"]
Of(kind, targets) == [kind |-> kind, targets |-> targets]
Send(chs, targets, event) ==
  [kind |-> "send", channels |-> chs, targets |-> targets, event |-> event]
\* Two notification consumers share nothing, so one is enough.
MCTopic ==
  [analytics |->
     [c \in Consumers |->
        IF c = 1 THEN <<[kind |-> "quota"], Api>> ELSE <<Api, Api>>],
   notification |->
     [c \in Consumers |->
        IF c = 1 THEN <<[kind |-> "otherAuthEvent"], Of("revoked", {}),
                        Send(<<"email", "webhook">>, {"webhook", "email"}, "subscription_expiry")>>
        ELSE <<>>]]
MCMaxCrashes == [analytics |-> 0, notification |-> 1]
=============================================================================
