----------------------------- MODULE MCFail2ban -----------------------------
EXTENDS Fail2ban

CONSTANTS sshd, web, office

\* The operator's own files: a jail of the distribution, enabled or not.
Plain   == {NoSection, [Blank EXCEPT !.enabled = "true"], [Blank EXCEPT !.enabled = "false", !.retry = "r1"]}
Nothing == {NoSection}
=============================================================================
