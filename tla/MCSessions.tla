----------------------------- MODULE MCSessions -----------------------------
(* Small instances of Sessions. *)
EXTENDS Sessions, TLC

AllTogether == {{a, b} : a, b \in OpNames}

\* What may overlap on one account: one Revoke at a time, and nothing that makes
\* sessions or writes the row beside a change of password; each of these breaks a
\* property.  A change of the profile is also apart from all but a deletion, since
\* nothing else reads what it writes, and a login from another and from a refresh,
\* since a session of its own concerns neither.
Revoking == {"Logout", "ChangePassword", "DeleteUser"}
Apart == AllTogether \ ({{a, b} : a, b \in Revoking}
                        \cup {{"ChangePassword", b} : b \in {"Login", "Refresh"}}
                        \cup {{"Login", b} : b \in {"Login", "Refresh"}}
                        \cup {{"Edit", b} : b \in OpNames \ {"DeleteUser"}})

Symmetry == Permutations(Handle) \cup Permutations(Request) \cup Permutations(Server)
=============================================================================
