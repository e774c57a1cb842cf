SPECIFICATION Spec
CONSTANTS
    HostWaits = "TRDY"
    Programs = {"echo", "transmit", "sleep"}
    BootWords = 2
    MaxWords = 3
    MaxCommands = 2
INVARIANTS HostWordsKept DspWordsKept TrdyTells CommandsServed PollWakes
 
