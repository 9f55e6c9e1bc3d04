---------------------------- MODULE MCBackOffice ----------------------------
\* What staff and workers do behind the shop, one part per behaviour: invoices and ledger,
\* automation jobs, hosting accounts, tickets, inquiries and projects.  The other parts stay
\* in their initial state.
EXTENDS Finance, Automation, Hosting, Tickets, Inquiries, Projects

VARIABLE desk

deskVars == <<vars, autoVars, hostingVars, ticketVars, inquiryVars, projectVars, desk>>

MCAmount == [o \in Orders |-> 3]

DeskInit ==
    /\ desk \in {"finance", "automation", "hosting", "tickets", "inquiries", "projects"}
    /\ Init /\ AutomationInit /\ HostingInit /\ TicketsInit /\ InquiriesInit /\ ProjectsInit
    /\ desk # "finance" => \A w \in Workers : wk[w] = Down

\* Bound: one worker handles both orders, two workers share one of them.
FewHandlers == ~ \E v, w \in Workers : v # w /\ wk[v] # Down /\ wk'[w] \notin {Idle, Down} /\ wk'[w].order # "o1"

Books == desk = "finance" /\ Next /\ FewHandlers /\ UNCHANGED <<autoVars, hostingVars, ticketVars, inquiryVars, projectVars, desk>>
Jobs == desk = "automation" /\ AutomationNext /\ UNCHANGED <<vars, hostingVars, ticketVars, inquiryVars, projectVars, desk>>
Accounts == desk = "hosting" /\ HostingNext /\ UNCHANGED <<vars, autoVars, ticketVars, inquiryVars, projectVars, desk>>
OneTicket == desk = "tickets" /\ TicketsNext /\ UNCHANGED <<vars, autoVars, hostingVars, inquiryVars, projectVars, desk>>
OneInquiry == desk = "inquiries" /\ InquiriesNext /\ UNCHANGED <<vars, autoVars, hostingVars, ticketVars, projectVars, desk>>
OneProject == desk = "projects" /\ ProjectsNext /\ UNCHANGED <<vars, autoVars, hostingVars, ticketVars, inquiryVars, desk>>

DeskNext == Books \/ Jobs \/ Accounts \/ OneTicket \/ OneInquiry \/ OneProject

DeskSpec == DeskInit /\ [][DeskNext]_deskVars /\ AutomationFairness /\ InquiriesFairness

\* Every variable of the six parts stays in its type.
DeskTypeOK ==
    TypeOK /\ AutomationTypeOK /\ HostingTypeOK /\ TicketsTypeOK /\ InquiriesTypeOK /\ ProjectsTypeOK
=============================================================================
