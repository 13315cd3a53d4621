---- MODULE MCLifecycle ----
\* nginx requires a capability of certbot.
EXTENDS Lifecycle, TLC

CONSTANTS nginx, certbot

MCOrder == <<certbot, nginx>>
MCRequires == (nginx :> {certbot}) @@ (certbot :> {})
====
