------------------------ MODULE MCOutboundDispatcher ------------------------
(* OutboundDispatcher with model values for scopes; items are numbered.     *)
EXTENDS OutboundDispatcher
=============================================================================
