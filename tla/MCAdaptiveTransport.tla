------------------------ MODULE MCAdaptiveTransport ------------------------
(* Every mode of a transport, and two remote candidates. *)
EXTENDS AdaptiveTransport

AllOptions == {o \in OptionType : o.rtc \/ o.relay}
=============================================================================
