SPECIFICATION Spec
CONSTANTS
  Requests = {"r1", "r2"}
  Host <- MCHost
  Attributes <- MCAttributes
  Identity <- MCIdentity
  Bare <- MCBare
  Apps <- MCApps
  NoApp = NoApp
  Unread = Unread
  Honeypot = "404rd"
  Nowhere = "nowhere"
  Unparsable = "://"
PROPERTIES ImplementsGate HandlersEnd
