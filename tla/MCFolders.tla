------------------------------ MODULE MCFolders -----------------------------
(* Small accounts for Folders and Janitor.                                 *)
EXTENDS Janitor

\* An inbox, a mailbox and one below it.
TreeNested == (1 :> [name |-> "i", parent |-> 0]) @@ (2 :> [name |-> "a", parent |-> 0])
              @@ (3 :> [name |-> "b", parent |-> 2])
\* An inbox and one mailbox.
TreeFlat == (1 :> [name |-> "i", parent |-> 0]) @@ (2 :> [name |-> "a", parent |-> 0])

Mail(b, m) == [box |-> b, mid |-> m]
MailFlat == <<Mail(2, 1)>>
MailNested == <<Mail(2, 1), Mail(3, 2)>>
\* One email is in both mailboxes of TreeFlat.
MailTwice == <<Mail(1, 1), Mail(2, 1), Mail(2, 2)>>
FoldersFlat == {<<"i">>, <<"a">>, <<"c">>}
FoldersNested == {<<"i">>, <<"a">>, <<"c">>, <<"a", "b">>, <<"c", "b">>, <<"a", "c">>, <<"b">>}
\* And where a move of "a" takes what may be below it.
FoldersReached == FoldersNested \cup {<<"b", "b">>, <<"b", "c">>, <<"c", "c">>}
Everything == {}

Account(t, m, fs, d, us, ss, na, nc) ==
    [tree |-> t, mail |-> m, folders |-> fs, deletes |-> d, user |-> us, server |-> ss,
     acts |-> na, crashes |-> nc]
Deletions == SUBSET {"delete-local", "delete-remote"}
RemotePolicies == {d \in Deletions : "delete-remote" \in d}

\* Where a removed maildir leaves its mailbox alone, the mailbox is not safe:
\* NonePolicy. So "rm" is for the policies that delete mailboxes.
AnyAct(t, m, fs, d, nc) ==
    Account(t, m, fs, d,
            {"mv", "mkdir", "mail", "mvmail", "dbloss"}
               \cup (IF d \in RemotePolicies THEN {"rm"} ELSE {}),
            {"create", "rename", "destroy", "deliver", "move"}, 2, nc)

\* Any two acts of anybody, and a crash where both sides delete or there is
\* one mailbox.
TwoActs ==
    {AnyAct(TreeNested, MailNested, FoldersNested, d, IF d \in RemotePolicies THEN 1 ELSE 0) :
        d \in Deletions \ {{"delete-remote"}}}
    \cup {AnyAct(TreeFlat, MailFlat, FoldersFlat, {"delete-remote"}, 1)}

\* Bindings and rows are lost, and a command repairs them.
Repairs ==
    {Account(TreeFlat, MailFlat, FoldersFlat, {"delete-remote"},
             {"mv", "mkdir", "rm", "unmark", "mvmail", "dbloss", "rebind", "prune"},
             {}, 3, 0),
     Account(TreeNested, MailNested, FoldersNested, {"delete-local", "delete-remote"},
             {"mv", "rm", "unmark", "rebind", "prune"}, {}, 2, 1)}

Unbindings ==
    {Account(TreeNested, MailNested, FoldersNested, {"delete-local", "delete-remote"},
             {"rm", "unmark", "dbloss", "rebind"}, {}, 3, 1),
     Account(TreeFlat, MailTwice, FoldersFlat, {"delete-local", "delete-remote"},
             {"mv", "unmark", "dbloss", "rebind"}, {}, 4, 0)}

\* The user makes a maildir in another; the server gives out few ids.
Nestings ==
    {Account(TreeNested, MailNested, FoldersNested, {}, {"mkdir", "prune"}, {"create"}, 3, 0)}

\* The server has mail twice.
Copied ==
    {Account(TreeFlat, MailFlat, {}, {}, {"dedupe", "dbloss"},
             {"copy", "move", "destroy", "expunge"}, 3, 1)}

\* Some maildirs are mount points, so that a cycle cannot rename them.
Mounted ==
    {Account(TreeFlat, MailFlat, FoldersFlat, d,
             {"mv", "mail", "mvmail", "rm", "dbloss", "mount"},
             {"rename", "destroy", "deliver", "move"}, 2, 1) : d \in RemotePolicies}

Accounts == TwoActs \cup Repairs \cup Unbindings \cup Nestings \cup Copied \cup Mounted

\* A mailbox whose maildir the user removes gets mail.
NonePolicy == {Account(TreeFlat, MailFlat, FoldersFlat, {}, {"rm"}, {"deliver", "move"}, 2, 0)}
=============================================================================
